---- MODULE Spec2Model ----
(***************************************************************************)
(* Model of the SolArk cloud integration.                                  *)
(*                                                                         *)
(* Part 1: the field normaliser SolArkCloudAPI.parse_plant_data of         *)
(* custom_components/solark/api.py, a pure function from the combined raw  *)
(* record to the sensor mapping.  JSON values are tagged records, Python   *)
(* floats are exact rationals n/d in lowest terms (rounding, NaN and       *)
(* infinities are outside the model).                                      *)
(***************************************************************************)
EXTENDS Integers, Sequences, FiniteSets, TLC

VARIABLES data, sensors, pc

\* the client SolArkAPI and its callers (Part 3)
VARIABLES token, authMode, lock, waiters, task, entry, started, invalidated

\* the telemetry fetcher SolArkCloudAPI.get_plant_data (Part 2)
VARIABLES fetch

\* the token of the flow client SolArkCloudAPI: _ensure_token and login
VARIABLES cloud

\* one validation of the config flow, or one authentication of the setup
VARIABLES login

parserVars == <<data, sensors, pc>>

fetchVars == <<fetch>>

cloudVars == <<cloud>>

loginVars == <<login>>

clientVars ==
    <<token, authMode, lock, waiters, task, entry, started, invalidated>>

vars ==
    <<parserVars, clientVars, fetchVars, cloudVars, loginVars>>

(***************************************************************************)
(* Bounds of the input space.                                              *)
(***************************************************************************)
MaxNum == 2
MaxStrLen == 2
MaxPairs == 2

(***************************************************************************)
(* JSON values.  Every value is a record [t, n, d, s]: t is the type tag,  *)
(* n/d the number (n the truth value of a bool, the length of a list),     *)
(* s the characters of a string (the exception name of an "exc").          *)
(***************************************************************************)
Val(t, n, d, s) == [t |-> t, n |-> n, d |-> d, s |-> s]

Absent == Val("absent", 0, 1, <<>>)
Null == Val("null", 0, 1, <<>>)
Bool(b) == Val("bool", IF b THEN 1 ELSE 0, 1, <<>>)
Str(s) == Val("str", 0, 1, s)
List(len) == Val("list", len, 1, <<>>)
Exc(name) == Val("exc", 0, 1, <<name>>)

Abs(x) == IF x < 0 THEN -x ELSE x

RECURSIVE GCD(_, _)
GCD(a, b) == IF b = 0 THEN a ELSE GCD(b, a % b)

\* the float n/d, in lowest terms with a positive denominator
Num(n, d) ==
    LET g == GCD(Abs(n), Abs(d))
        sgn == IF d < 0 THEN -1 ELSE 1
    IN  Val("num", sgn * (n \div g), sgn * (d \div g), <<>>)

IntNum(n) == Num(n, 1)
Zero == IntNum(0)

IsNum(v) == v.t = "num"

\* float arithmetic; an operand that is not a float is an error value
FAdd(a, b) ==
    IF ~IsNum(a) THEN a ELSE IF ~IsNum(b) THEN b
    ELSE Num(a.n * b.d + b.n * a.d, a.d * b.d)

FMul(a, b) ==
    IF ~IsNum(a) THEN a ELSE IF ~IsNum(b) THEN b
    ELSE Num(a.n * b.n, a.d * b.d)

FDiv(a, b) ==
    IF ~IsNum(a) THEN a ELSE IF ~IsNum(b) THEN b
    ELSE IF b.n = 0 THEN Exc("ZeroDivisionError")
    ELSE Num(a.n * b.d, a.d * b.n)

FAbs(a) == IF ~IsNum(a) THEN a ELSE Num(Abs(a.n), a.d)

FIsZero(a) == IsNum(a) /\ a.n = 0
FPos(a) == IsNum(a) /\ a.n > 0
FNeg(a) == IsNum(a) /\ a.n < 0

(***************************************************************************)
(* float(value) of Python: numbers and bools convert, a string converts    *)
(* when it is an optionally signed run of digits, everything else raises.  *)
(***************************************************************************)
Digits == <<"0", "1", "2", "3", "4", "5", "6", "7", "8", "9">>

IsDigit(c) == \E i \in 1..10 : Digits[i] = c

DigitVal(c) == (CHOOSE i \in 1..10 : Digits[i] = c) - 1

RECURSIVE DigitsVal(_)
DigitsVal(s) ==
    IF s = <<>> THEN 0
    ELSE 10 * DigitsVal(SubSeq(s, 1, Len(s) - 1)) + DigitVal(s[Len(s)])

AllDigits(s) == Len(s) > 0 /\ \A i \in 1..Len(s) : IsDigit(s[i])

Float(value) ==
    CASE value.t = "num" -> value
      [] value.t = "bool" -> IntNum(value.n)
      [] value.t = "str" ->
            IF AllDigits(value.s) THEN IntNum(DigitsVal(value.s))
            ELSE IF Len(value.s) > 1 /\ value.s[1] = "-" /\ AllDigits(Tail(value.s))
                 THEN IntNum(-DigitsVal(Tail(value.s)))
            ELSE Exc("ValueError")
      [] OTHER -> Exc("TypeError")

\* _safe_float without its None test and its except clause
_safe_float_uncaught(value) == Float(value)

_safe_float(value) ==
    IF value.t = "null" THEN Zero
    ELSE LET r == Float(value)
         IN  IF r.t = "exc" /\ r.s \in {<<"TypeError">>, <<"ValueError">>}
             THEN Zero ELSE r

\* truth value of a Python object
Truthy(v) ==
    CASE v.t = "bool" -> v.n = 1
      [] v.t = "num" -> v.n /= 0
      [] v.t = "str" -> v.s /= <<>>
      [] v.t = "list" -> v.n > 0
      [] OTHER -> FALSE

(***************************************************************************)
(* The raw record.  data.isdict tells whether the argument is a mapping;   *)
(* data.f is the mapping, a function from the keys in it to their values.  *)
(***************************************************************************)
NumStrings == 12

VoltKeys == <<"volt1", "volt2", "volt3", "volt4", "volt5", "volt6",
              "volt7", "volt8", "volt9", "volt10", "volt11", "volt12">>

CurrentKeys == <<"current1", "current2", "current3", "current4",
                 "current5", "current6", "current7", "current8",
                 "current9", "current10", "current11", "current12">>

PvStringKeys == <<"pv_string_1_power", "pv_string_2_power",
                  "pv_string_3_power", "pv_string_4_power",
                  "pv_string_5_power", "pv_string_6_power",
                  "pv_string_7_power", "pv_string_8_power",
                  "pv_string_9_power", "pv_string_10_power",
                  "pv_string_11_power", "pv_string_12_power">>

\* the keys parse_plant_data reads
KnownKeys ==
    {"energyToday", "etoday", "energyTotal", "etotal", "soc", "curCap",
     "batteryCap", "pvPower", "battPower", "curVolt", "chargeCurrent",
     "gridOrMeterPower", "loadOrEpsPower", "meterA", "meterB", "meterC",
     "toGrid", "gridTo", "gridImportPower", "gridExportPower"}
    \cup {VoltKeys[i] : i \in 1..NumStrings}
    \cup {CurrentKeys[i] : i \in 1..NumStrings}

\* keys of the live telemetry that parse_plant_data does not read
OtherKeys == {"inverterOutputVoltage", "curCurrent", "pf"}

Keys == KnownKeys \cup OtherKeys

\* k in d
Has(d, k) == k \in DOMAIN d

\* d.get(k) and d.get(k, default)
Get(d, k) == IF Has(d, k) THEN d[k] ELSE Null
GetOr(d, k, default) == IF Has(d, k) THEN d[k] ELSE default

(***************************************************************************)
(* The sensors dict: a function from the keys set so far to values.        *)
(***************************************************************************)
EmptyDict == [k \in {} |-> Zero]

Put(m, k, v) == [x \in (DOMAIN m) \cup {k} |-> IF x = k THEN v ELSE m[x]]

SetDefault(m, k, v) == IF k \in DOMAIN m THEN m ELSE Put(m, k, v)

GuaranteedKeys ==
    <<"pv_power", "battery_power", "grid_power", "load_power",
      "grid_import_power", "grid_export_power", "battery_soc",
      "energy_today", "energy_total">>

\* the loop with range(1, 12): string 12 is left out
RECURSIVE PvSumFromShort(_, _, _)
PvSumFromShort(d, i, pv_sum) ==
    IF i > NumStrings - 1 THEN pv_sum
    ELSE LET v_raw == Get(d, VoltKeys[i])
             c_raw == Get(d, CurrentKeys[i])
         IN  IF v_raw.t = "null" /\ c_raw.t = "null"
             THEN PvSumFromShort(d, i + 1, pv_sum)
             ELSE PvSumFromShort(d, i + 1,
                      FAdd(pv_sum, FMul(_safe_float(v_raw), _safe_float(c_raw))))

\* the loop of lines 516-524: the sum of volt{i} * current{i} over i..12
RECURSIVE PvSumFrom(_, _, _)
PvSumFrom(d, i, pv_sum) ==
    IF i > NumStrings THEN pv_sum
    ELSE LET v_raw == Get(d, VoltKeys[i])
             c_raw == Get(d, CurrentKeys[i])
         IN  IF v_raw.t = "null" /\ c_raw.t = "null"
             THEN PvSumFrom(d, i + 1, pv_sum)
             ELSE PvSumFrom(d, i + 1,
                      FAdd(pv_sum, FMul(_safe_float(v_raw), _safe_float(c_raw))))

\* lines 489-496
ParseEnergy(d, s0) ==
    LET s1 == IF Has(d, "energyToday") \/ Has(d, "etoday")
              THEN Put(s0, "energy_today",
                       _safe_float(GetOr(d, "energyToday", Get(d, "etoday"))))
              ELSE s0
    IN  IF Has(d, "energyTotal") \/ Has(d, "etotal")
        THEN Put(s1, "energy_total",
                 _safe_float(GetOr(d, "energyTotal", Get(d, "etotal"))))
        ELSE s1

\* the capacity guard written batt_cap != 0
ParseSocNonZeroCap(d, s0) ==
    LET s1 == IF Has(d, "soc")
              THEN Put(s0, "battery_soc", _safe_float(Get(d, "soc")))
              ELSE s0
        cur_cap == _safe_float(Get(d, "curCap"))
        batt_cap == _safe_float(Get(d, "batteryCap"))
    IN  IF "battery_soc" \notin DOMAIN s1 /\ ~FIsZero(batt_cap)
        THEN Put(s1, "battery_soc", FMul(FDiv(cur_cap, batt_cap), IntNum(100)))
        ELSE s1

\* lines 498-508
ParseSoc(d, s0) ==
    LET s1 == IF Has(d, "soc")
              THEN Put(s0, "battery_soc", _safe_float(Get(d, "soc")))
              ELSE s0
        cur_cap == _safe_float(Get(d, "curCap"))
        batt_cap == _safe_float(Get(d, "batteryCap"))
    IN  IF "battery_soc" \notin DOMAIN s1 /\ FPos(batt_cap)
        THEN Put(s1, "battery_soc", FMul(FDiv(cur_cap, batt_cap), IntNum(100)))
        ELSE s1

\* the string sum overwrites pvPower whenever it is non-zero
ParsePvSumWins(d, s0) ==
    LET s1 == IF Has(d, "pvPower")
              THEN Put(s0, "pv_power", _safe_float(Get(d, "pvPower")))
              ELSE s0
        pv_sum == PvSumFrom(d, 1, Zero)
    IN  IF ~FIsZero(pv_sum)
        THEN Put(s1, "pv_power", pv_sum)
        ELSE s1

\* lines 510-527
ParsePv(d, s0) ==
    LET s1 == IF Has(d, "pvPower")
              THEN Put(s0, "pv_power", _safe_float(Get(d, "pvPower")))
              ELSE s0
        pv_sum == PvSumFrom(d, 1, Zero)
    IN  IF "pv_power" \notin DOMAIN s1 /\ ~FIsZero(pv_sum)
        THEN Put(s1, "pv_power", pv_sum)
        ELSE s1

\* battPower stored as a magnitude
ParseBatteryAbs(d, s0) ==
    LET s1 == IF Has(d, "battPower")
              THEN Put(s0, "battery_power",
                       FAbs(_safe_float(Get(d, "battPower"))))
              ELSE s0
        cur_volt == _safe_float(Get(d, "curVolt"))
        charge_current == _safe_float(Get(d, "chargeCurrent"))
    IN  IF "battery_power" \notin DOMAIN s1
           /\ (~FIsZero(cur_volt) \/ ~FIsZero(charge_current))
        THEN Put(s1, "battery_power", FMul(cur_volt, charge_current))
        ELSE s1

\* lines 529-539
ParseBattery(d, s0) ==
    LET s1 == IF Has(d, "battPower")
              THEN Put(s0, "battery_power", _safe_float(Get(d, "battPower")))
              ELSE s0
        cur_volt == _safe_float(Get(d, "curVolt"))
        charge_current == _safe_float(Get(d, "chargeCurrent"))
    IN  IF "battery_power" \notin DOMAIN s1
           /\ (~FIsZero(cur_volt) \/ ~FIsZero(charge_current))
        THEN Put(s1, "battery_power", FMul(cur_volt, charge_current))
        ELSE s1

\* lines 541-547
ParseFlow(d, s0) ==
    LET s1 == IF Has(d, "gridOrMeterPower")
              THEN Put(s0, "grid_power", _safe_float(Get(d, "gridOrMeterPower")))
              ELSE s0
    IN  IF Has(d, "loadOrEpsPower")
        THEN Put(s1, "load_power", _safe_float(Get(d, "loadOrEpsPower")))
        ELSE s1

\* line 555
GridNet(d) ==
    FAdd(FAdd(_safe_float(Get(d, "meterA")), _safe_float(Get(d, "meterB"))),
         _safe_float(Get(d, "meterC")))

\* the condition of line 572
FlagBranch(d) ==
    /\ Has(d, "toGrid") \/ Has(d, "gridTo")
    /\ \/ Truthy(GetOr(d, "toGrid", Bool(FALSE)))
       \/ Truthy(GetOr(d, "gridTo", Bool(FALSE)))

\* the direction flags are looked at before the meter sum
ParseGridFlagsFirst(d, s0) ==
    LET s1 == Put(Put(s0, "grid_import_power", Zero), "grid_export_power", Zero)
        grid_net == GridNet(d)
    IN  IF FlagBranch(d)
        THEN LET grid_or_meter == _safe_float(Get(d, "gridOrMeterPower"))
             IN  IF ~FIsZero(grid_or_meter)
                 THEN IF Truthy(GetOr(d, "toGrid", Bool(FALSE)))
                      THEN Put(s1, "grid_export_power", FAbs(grid_or_meter))
                      ELSE Put(s1, "grid_import_power", FAbs(grid_or_meter))
                 ELSE s1
        ELSE IF ~FIsZero(grid_net)
        THEN IF FPos(grid_net)
             THEN Put(s1, "grid_import_power", grid_net)
             ELSE Put(s1, "grid_export_power", FAbs(grid_net))
        ELSE LET s2 == IF Has(d, "gridImportPower")
                       THEN Put(s1, "grid_import_power",
                                _safe_float(Get(d, "gridImportPower")))
                       ELSE s1
             IN  IF Has(d, "gridExportPower")
                 THEN Put(s2, "grid_export_power",
                          _safe_float(Get(d, "gridExportPower")))
                 ELSE s2

\* the explicit fields are read whenever the meter sum is zero, also when
\* a direction flag is true
ParseGridExplicitAlways(d, s0) ==
    LET s1 == Put(Put(s0, "grid_import_power", Zero), "grid_export_power", Zero)
        grid_net == GridNet(d)
    IN  IF ~FIsZero(grid_net)
        THEN IF FPos(grid_net)
             THEN Put(s1, "grid_import_power", grid_net)
             ELSE Put(s1, "grid_export_power", FAbs(grid_net))
        ELSE LET grid_or_meter == _safe_float(Get(d, "gridOrMeterPower"))
                 s2 == IF FlagBranch(d) /\ ~FIsZero(grid_or_meter)
                       THEN IF Truthy(GetOr(d, "toGrid", Bool(FALSE)))
                            THEN Put(s1, "grid_export_power", FAbs(grid_or_meter))
                            ELSE Put(s1, "grid_import_power", FAbs(grid_or_meter))
                       ELSE s1
                 s3 == IF Has(d, "gridImportPower")
                       THEN Put(s2, "grid_import_power",
                                _safe_float(Get(d, "gridImportPower")))
                       ELSE s2
             IN  IF Has(d, "gridExportPower")
                 THEN Put(s3, "grid_export_power",
                          _safe_float(Get(d, "gridExportPower")))
                 ELSE s3

\* the flag branch without abs() and the explicit fields with abs()
ParseGridAbsMoved(d, s0) ==
    LET s1 == Put(Put(s0, "grid_import_power", Zero), "grid_export_power", Zero)
        grid_net == GridNet(d)
    IN  IF ~FIsZero(grid_net)
        THEN IF FPos(grid_net)
             THEN Put(s1, "grid_import_power", grid_net)
             ELSE Put(s1, "grid_export_power", FAbs(grid_net))
        ELSE IF FlagBranch(d)
        THEN LET grid_or_meter == _safe_float(Get(d, "gridOrMeterPower"))
             IN  IF ~FIsZero(grid_or_meter)
                 THEN IF Truthy(GetOr(d, "toGrid", Bool(FALSE)))
                      THEN Put(s1, "grid_export_power", grid_or_meter)
                      ELSE Put(s1, "grid_import_power", grid_or_meter)
                 ELSE s1
        ELSE LET s2 == IF Has(d, "gridImportPower")
                       THEN Put(s1, "grid_import_power",
                                FAbs(_safe_float(Get(d, "gridImportPower"))))
                       ELSE s1
             IN  IF Has(d, "gridExportPower")
                 THEN Put(s2, "grid_export_power",
                          FAbs(_safe_float(Get(d, "gridExportPower"))))
                 ELSE s2

\* lines 549-595
ParseGrid(d, s0) ==
    LET s1 == Put(Put(s0, "grid_import_power", Zero), "grid_export_power", Zero)
        grid_net == GridNet(d)
    IN  IF ~FIsZero(grid_net)
        THEN IF FPos(grid_net)
             THEN Put(s1, "grid_import_power", grid_net)
             ELSE Put(s1, "grid_export_power", FAbs(grid_net))
        ELSE IF FlagBranch(d)
        THEN LET grid_or_meter == _safe_float(Get(d, "gridOrMeterPower"))
             IN  IF ~FIsZero(grid_or_meter)
                 THEN IF Truthy(GetOr(d, "toGrid", Bool(FALSE)))
                      THEN Put(s1, "grid_export_power", FAbs(grid_or_meter))
                      ELSE Put(s1, "grid_import_power", FAbs(grid_or_meter))
                 ELSE s1
        ELSE LET s2 == IF Has(d, "gridImportPower")
                       THEN Put(s1, "grid_import_power",
                                _safe_float(Get(d, "gridImportPower")))
                       ELSE s1
             IN  IF Has(d, "gridExportPower")
                 THEN Put(s2, "grid_export_power",
                          _safe_float(Get(d, "gridExportPower")))
                 ELSE s2

\* lines 599-608
RECURSIVE EnsureKeys(_, _)
EnsureKeys(s0, i) ==
    IF i > Len(GuaranteedKeys) THEN s0
    ELSE EnsureKeys(SetDefault(s0, GuaranteedKeys[i], Zero), i + 1)

parse_plant_data(arg) ==
    IF ~arg.isdict THEN EmptyDict
    ELSE LET d == arg.f
         IN  EnsureKeys(
               ParseGrid(d,
                 ParseFlow(d,
                   ParseBattery(d,
                     ParsePv(d,
                       ParseSoc(d,
                         ParseEnergy(d, EmptyDict)))))), 1)

(***************************************************************************)
(* The raw records the normaliser is applied to.                           *)
(***************************************************************************)
Chars == {"-", "2", "x"}

Strings == UNION {[1..n -> Chars] : n \in 0..MaxStrLen}

IntNums == {IntNum(n) : n \in (-MaxNum)..MaxNum}

Half == Num(1, 2)

X == Str(<<"x">>)

AllValues ==
    {Null, Bool(FALSE), Bool(TRUE), List(0), List(1), Half}
    \cup IntNums \cup {Str(s) : s \in Strings}

\* the mapping with the fields of g that are not Absent
Rec(g) ==
    [isdict |-> TRUE,
     f |-> [k \in {x \in DOMAIN g : g[x] /= Absent} |-> g[k]]]

\* an argument that is not a mapping (a list, a string, None)
NonDict == [isdict |-> FALSE, f |-> EmptyDict]

OneFieldRecords == \E k \in Keys, v \in AllValues : data = Rec(k :> v)

EnergyRecords ==
    \E a \in {Absent, Null, IntNum(1), Half},
        b \in {Absent, IntNum(MaxNum), X},
        c \in {Absent, Null, IntNum(MaxNum)},
        e \in {Absent, Null, IntNum(1)} :
        data = Rec(("energyToday" :> a) @@ ("etoday" :> b)
                   @@ ("energyTotal" :> c) @@ ("etotal" :> e))

SocRecords ==
    \E a \in {Absent, Null, X, Zero, IntNum(MaxNum)},
        b \in {Absent, Null, Half, IntNum(50)} \cup IntNums,
        c \in {Absent, Null, X, Str(<<"2">>), IntNum(200)} \cup IntNums :
        data = Rec(("soc" :> a) @@ ("curCap" :> b) @@ ("batteryCap" :> c))

PairValues ==
    {<<IntNum(2), IntNum(1)>>, <<IntNum(-1), IntNum(MaxNum)>>,
     <<IntNum(-2), IntNum(1)>>, <<Null, IntNum(1)>>,
     <<IntNum(2), Absent>>, <<X, Half>>}

PairFields(I, g) ==
    [k \in {VoltKeys[i] : i \in I} \cup {CurrentKeys[i] : i \in I} |->
        LET i == CHOOSE j \in I : k \in {VoltKeys[j], CurrentKeys[j]}
        IN  IF k = VoltKeys[i] THEN g[i][1] ELSE g[i][2]]

PvRecords ==
    \E I \in {S \in SUBSET (1..NumStrings) : Cardinality(S) <= MaxPairs} :
        \E p \in {Absent, Null, Zero, IntNum(MaxNum)}, g \in [I -> PairValues] :
            data = Rec(("pvPower" :> p) @@ PairFields(I, g))

BatteryRecords ==
    \E a \in {Absent, Null, Zero, IntNum(-MaxNum)},
        b \in {Absent, Null, X} \cup IntNums,
        c \in {Absent, Half} \cup IntNums :
        data = Rec(("battPower" :> a) @@ ("curVolt" :> b) @@ ("chargeCurrent" :> c))

LoadRecords ==
    \E a \in {Absent, Null, X, IntNum(MaxNum)},
        b \in {Absent, IntNum(2)},
        c \in {Absent, IntNum(1)},
        e \in {Absent, Zero, Half} :
        data = Rec(("loadOrEpsPower" :> a) @@ ("inverterOutputVoltage" :> b)
                   @@ ("curCurrent" :> c) @@ ("pf" :> e))

GridRecords ==
    \E a \in {Absent, Null, X, Str(<<"2">>)} \cup IntNums,
        b \in {Absent} \cup IntNums,
        c \in {Absent, IntNum(-1), IntNum(1)},
        t \in {Absent, Bool(FALSE), Bool(TRUE)},
        g \in {Absent, Bool(FALSE), Bool(TRUE)},
        m \in {Absent, Null, Zero, IntNum(1), IntNum(-MaxNum)},
        i \in {Absent, IntNum(-1), IntNum(MaxNum)},
        e \in {Absent, IntNum(1), IntNum(-MaxNum)} :
        data = Rec(("meterA" :> a) @@ ("meterB" :> b) @@ ("meterC" :> c)
                   @@ ("toGrid" :> t) @@ ("gridTo" :> g) @@ ("gridOrMeterPower" :> m)
                   @@ ("gridImportPower" :> i) @@ ("gridExportPower" :> e))

FlagValues ==
    {Absent, Null, Bool(FALSE), Bool(TRUE), Zero, IntNum(1),
     Str(<<>>), X, List(0), List(1)}

FlagRecords ==
    \E t \in FlagValues, g \in FlagValues,
        m \in {Absent, Zero, IntNum(-MaxNum)},
        i \in {Absent, IntNum(-1)},
        e \in {Absent, IntNum(1)} :
        data = Rec(("toGrid" :> t) @@ ("gridTo" :> g) @@ ("gridOrMeterPower" :> m)
                   @@ ("gridImportPower" :> i) @@ ("gridExportPower" :> e))

FlowRecords ==
    \E a \in {Absent, IntNum(MaxNum)},
        b \in {Absent, IntNum(-1), IntNum(MaxNum)},
        c \in {Absent, IntNum(-1), IntNum(MaxNum)},
        e \in {Absent, IntNum(MaxNum)},
        g \in {Absent, IntNum(MaxNum), Half},
        h \in {Absent, IntNum(1), Half} :
        data = Rec(("pvPower" :> a) @@ ("battPower" :> b) @@ ("gridOrMeterPower" :> c)
                   @@ ("loadOrEpsPower" :> e) @@ ("soc" :> g) @@ ("energyToday" :> h))

Inputs ==
    \/ data = NonDict
    \/ OneFieldRecords
    \/ EnergyRecords
    \/ SocRecords
    \/ PvRecords
    \/ BatteryRecords
    \/ LoadRecords
    \/ GridRecords
    \/ FlagRecords
    \/ FlowRecords

(***************************************************************************)
(* Part 2: the telemetry fetcher SolArkCloudAPI.get_plant_data of          *)
(* custom_components/solark/api.py: the inverter list, the live telemetry  *)
(* of the first inverter and the optional power flow, merged into the raw  *)
(* record.  A JSON object is a function from its keys to values.           *)
(***************************************************************************)
CloudError == "SolArkCloudAPIError"
RawError == "Exception"

\* the JSON value {} inside an object
EmptyObject == Val("dict", 0, 1, <<>>)

\* the "data" member of a response: absent, null, a list of n items, or an
\* object d
Payload(t, n, d) == [t |-> t, n |-> n, d |-> d]
NoPayload == Payload("absent", 0, EmptyDict)
NullPayload == Payload("null", 0, EmptyDict)
ListPayload(n) == Payload("list", n, EmptyDict)
DictPayload(d) == Payload("dict", 0, d)

PayloadTruthy(p) ==
    \/ p.t = "list" /\ p.n > 0
    \/ p.t = "dict" /\ DOMAIN p.d /= {}

\* what session.request can answer: a failure of the transport, an error
\* status, a body that is not JSON, JSON that is not an object, or an object
\* with the members code, data and the other top-level members top
Envelope(kind, code, payload, top) ==
    [kind |-> kind, code |-> code, data |-> payload, top |-> top]

FailedEnvelopes ==
    {Envelope(k, Absent, NoPayload, EmptyDict) :
        k \in {"http", "timeout", "client", "badjson"}}

NonDictEnvelope == Envelope("nondict", Absent, NoPayload, EmptyDict)

Codes == {Absent, Null, IntNum(0), Str(<<"0">>), IntNum(1)}

\* api.py lines 162-163: code not in (0, "0", None)
CodeOk(c) == c \in {Absent, Null, IntNum(0), Str(<<"0">>)}

\* api.py lines 98-170: the outcome of _request for an answer
_request(resp) ==
    IF resp.kind \in {"http", "timeout", "client", "badjson"} THEN CloudError
    ELSE IF resp.kind = "dict" /\ ~CodeOk(resp.code) THEN CloudError
    ELSE ""

\* the response object itself, as a dict
Whole(resp) ==
    LET withCode == IF resp.code = Absent THEN resp.top
                    ELSE Put(resp.top, "code", resp.code)
    IN  CASE resp.data.t = "absent" -> withCode
          [] resp.data.t = "null" -> Put(withCode, "data", Null)
          [] resp.data.t = "list" -> Put(withCode, "data", List(resp.data.n))
          [] OTHER -> Put(withCode, "data", EmptyObject)

\* api.py lines 350-368: the first inverter of the list response, when it
\* has a serial number; inverters is the first truthy one of the lists
\* infos, list, records of the data object
FirstInverter(resp) ==
    LET d == IF PayloadTruthy(resp.data) THEN resp.data.d ELSE EmptyDict
        lists == <<"infos", "list", "records">>
        found == {i \in 1..3 : Has(d, lists[i]) /\ Len(d[lists[i]]) > 0}
    IN  IF resp.kind /= "dict" THEN [err |-> RawError, first |-> EmptyDict]
        ELSE IF resp.data.t = "list" /\ resp.data.n > 0
            THEN [err |-> RawError, first |-> EmptyDict]
        ELSE IF found = {} THEN [err |-> "", first |-> EmptyDict]
        ELSE LET i == CHOOSE x \in found : \A y \in found : x <= y
             IN  [err |-> "", first |-> d[lists[i]][1]]

\* api.py line 364: sn = first.get("sn") or first.get("deviceSn")
SerialOf(first) ==
    IF Truthy(Get(first, "sn")) THEN Get(first, "sn")
    ELSE Get(first, "deviceSn")

\* api.py lines 377-380: live_data = live_resp.get("data") or live_resp;
\* isdict tells whether it is a dict
LiveData(resp) ==
    IF resp.kind /= "dict" THEN [err |-> RawError, isdict |-> FALSE,
                                 d |-> EmptyDict]
    ELSE IF PayloadTruthy(resp.data)
        THEN [err |-> "", isdict |-> resp.data.t = "dict", d |-> resp.data.d]
    ELSE [err |-> "", isdict |-> TRUE, d |-> Whole(resp)]

\* api.py lines 387-394: setdefault of energyToday / energyTotal
EnergyOverlay(live, etoday, etotal) ==
    LET a == IF etoday.t \notin {"absent", "null"}
                THEN SetDefault(live, "energyToday", etoday) ELSE live
    IN  IF etotal.t \notin {"absent", "null"}
            THEN SetDefault(a, "energyTotal", etotal) ELSE a

\* api.py lines 423-429: the flow data of an answer that _request returned
FlowData(resp) ==
    IF resp.kind /= "dict" THEN EmptyDict
    ELSE IF resp.data.t = "dict" THEN resp.data.d
    ELSE Whole(resp)

\* api.py line 444
FlowAllowList ==
    {"pvPower", "battPower", "gridOrMeterPower", "loadOrEpsPower", "soc",
     "toGrid", "gridTo"}

\* the overlay that keeps a live value where there is one
MergeFlowKeepLive(live, flow) ==
    [k \in DOMAIN live \cup (DOMAIN flow \cap FlowAllowList) |->
        IF k \in DOMAIN live THEN live[k] ELSE flow[k]]

\* api.py lines 440-445: the allow-listed flow keys overwrite live_data
MergeFlow(live, flow) ==
    [k \in DOMAIN live \cup (DOMAIN flow \cap FlowAllowList) |->
        IF k \in DOMAIN flow \cap FlowAllowList THEN flow[k] ELSE live[k]]

(***************************************************************************)
(* The call get_plant_data(), step by step.  fetch.pc is the position of   *)
(* the coroutine; etoday, etotal, live are its locals; liveIn, flowIn,     *)
(* nodevice, gotLive and failed record what the call received; out and err *)
(* are what it returned or raised.                                         *)
(***************************************************************************)
FetchIdle ==
    [pc |-> "idle", etoday |-> Absent, etotal |-> Absent, live |-> EmptyDict,
     liveIn |-> EmptyDict, flowIn |-> EmptyDict, nodevice |-> FALSE,
     gotLive |-> FALSE, failed |-> "", out |-> EmptyDict, err |-> ""]

\* get_plant_data raises err while doing the request `stage`
RaiseFetch(stage, err) ==
    [fetch EXCEPT !.pc = "done", !.failed = stage, !.err = err]

\* api.py line 448: return live_data
ReturnFetch(rec) == [rec EXCEPT !.pc = "done", !.out = rec.live]

\* api.py lines 92-96: the token checks, in the order of the call; each is
\* followed by the position `next`
EnsurePoints ==
    [ensure_inv |-> [stage |-> "inv", next |-> "ensure_inv_req"],
     ensure_inv_req |-> [stage |-> "inv", next |-> "inv_wait"],
     ensure_live_req |-> [stage |-> "live", next |-> "live_wait"],
     ensure_flow |-> [stage |-> "flow", next |-> "ensure_flow_req"],
     ensure_flow_req |-> [stage |-> "flow", next |-> "flow_wait"]]

\* the token is valid, or login() is called and succeeds, raises
\* SolArkCloudAPIError, or raises something else
EnsureOutcomes == {"valid", "login_ok", CloudError, RawError}

\* api.py line 434
StartFetch ==
    /\ fetch.pc = "idle"
    /\ fetch' = [fetch EXCEPT !.pc = "ensure_inv"]
    /\ UNCHANGED <<parserVars, clientVars, cloudVars, loginVars>>

\* api.py lines 92-96 at lines 331, 105-106 and 404: a failed login ends
\* the call, except in the flow stage (lines 412-419 and 446-447)
EnsureToken(o) ==
    /\ fetch.pc \in DOMAIN EnsurePoints
    /\ LET p == EnsurePoints[fetch.pc]
       IN  fetch' =
               IF o \in {"valid", "login_ok"}
                   THEN [fetch EXCEPT !.pc = p.next]
               ELSE IF p.stage = "flow"
                   THEN ReturnFetch([fetch EXCEPT !.failed = "flow"])
               ELSE RaiseFetch(p.stage, o)
    /\ UNCHANGED <<parserVars, clientVars, cloudVars, loginVars>>

\* api.py lines 343-368: the answer to the inverter list request
InvResponse(resp) ==
    /\ fetch.pc = "inv_wait"
    /\ LET inv == FirstInverter(resp)
       IN  fetch' =
               IF _request(resp) /= "" THEN RaiseFetch("inv", _request(resp))
               ELSE IF inv.err /= "" THEN RaiseFetch("inv", inv.err)
               ELSE IF inv.first = EmptyDict \/ ~Truthy(SerialOf(inv.first))
                   THEN [fetch EXCEPT !.pc = "ensure_flow", !.nodevice = TRUE]
               ELSE [fetch EXCEPT !.pc = "ensure_live_req",
                                  !.etoday = GetOr(inv.first, "etoday", Absent),
                                  !.etotal = GetOr(inv.first, "etotal", Absent)]
    /\ UNCHANGED <<parserVars, clientVars, cloudVars, loginVars>>

\* api.py lines 370-400: the answer to the live telemetry request
LiveResponse(resp) ==
    /\ fetch.pc = "live_wait"
    /\ LET l == LiveData(resp)
       IN  fetch' =
               IF _request(resp) /= "" THEN RaiseFetch("live", _request(resp))
               ELSE IF l.err /= "" THEN RaiseFetch("live", l.err)
               ELSE IF ~l.isdict THEN [fetch EXCEPT !.pc = "ensure_flow"]
               ELSE [fetch EXCEPT
                        !.pc = "ensure_flow",
                        !.gotLive = TRUE,
                        !.liveIn = l.d,
                        !.live = EnergyOverlay(l.d, fetch.etoday,
                                               fetch.etotal)]
    /\ UNCHANGED <<parserVars, clientVars, cloudVars, loginVars>>

\* a failure of the power-flow request ending the call
FlowResponseRaising(resp) ==
    /\ fetch.pc = "flow_wait"
    /\ fetch' =
           IF _request(resp) /= ""
               THEN RaiseFetch("flow", _request(resp))
               ELSE ReturnFetch([fetch EXCEPT
                        !.flowIn = FlowData(resp),
                        !.live = MergeFlow(fetch.live, FlowData(resp))])
    /\ UNCHANGED <<parserVars, clientVars, cloudVars, loginVars>>

\* api.py lines 412-429 and 438-448: the answer to the power-flow request
FlowResponse(resp) ==
    /\ fetch.pc = "flow_wait"
    /\ fetch' =
           IF _request(resp) /= ""
               THEN ReturnFetch([fetch EXCEPT !.failed = "flow"])
               ELSE ReturnFetch([fetch EXCEPT
                        !.flowIn = FlowData(resp),
                        !.live = MergeFlow(fetch.live, FlowData(resp))])
    /\ UNCHANGED <<parserVars, clientVars, cloudVars, loginVars>>

(***************************************************************************)
(* The token of the flow client SolArkCloudAPI: _ensure_token, login,      *)
(* _oauth_login and _legacy_login of custom_components/solark/api.py.      *)
(* Time is in seconds.  The message of an exception is its text, the       *)
(* vendor message put into it, and the messages joined into it.            *)
(***************************************************************************)
DefaultLifetime == 3600
SafetyMargin == 60
LegacyLifetime == 1800

Msg(text, vendor, parts) == [text |-> text, vendor |-> vendor, parts |-> parts]

\* int(value) of Python
PyInt(value) ==
    CASE value.t = "num" ->
            IF value.n >= 0 THEN IntNum(value.n \div value.d)
            ELSE IntNum(-((-value.n) \div value.d))
      [] value.t = "bool" -> IntNum(value.n)
      [] value.t = "str" ->
            IF AllDigits(value.s) THEN IntNum(DigitsVal(value.s))
            ELSE IF Len(value.s) > 1 /\ value.s[1] = "-" /\ AllDigits(Tail(value.s))
                 THEN IntNum(-DigitsVal(Tail(value.s)))
            ELSE Exc("ValueError")
      [] OTHER -> Exc("TypeError")

\* what a login strategy does: it raises err with the message text and the
\* vendor message in it (err = "" when it returns); setTok tells whether
\* self._token was assigned tok, setExp whether self._token_expiry was
\* assigned now + life
LoginOutcome(err, text, vendor, setTok, tok, setExp, life) ==
    [err |-> err, msg |-> Msg(text, vendor, <<>>), setTok |-> setTok,
     tok |-> tok, setExp |-> setExp, life |-> life]

\* api.py lines 190-220 and 257-287: the failures of session.post
PostFailure(name, resp) ==
    LET text == CASE resp.kind = "http" -> name \o " login HTTP"
                  [] resp.kind = "badjson" -> name \o " login invalid JSON"
                  [] resp.kind = "timeout" -> name \o " login timeout"
                  [] resp.kind = "client" -> name \o " login client error"
                  [] OTHER -> name \o " login response not JSON object"
    IN  LoginOutcome(CloudError, text, Absent, FALSE, Null, FALSE, 0)

\* api.py lines 176-245
_oauth_login(resp) ==
    LET d == IF PayloadTruthy(resp.data) THEN resp.data.d ELSE EmptyDict
        tok == IF Truthy(Get(d, "access_token")) THEN Get(d, "access_token")
               ELSE Get(d, "token")
        life == PyInt(GetOr(d, "expires_in", IntNum(DefaultLifetime)))
    IN  IF resp.kind /= "dict" THEN PostFailure("OAuth", resp)
        ELSE IF resp.code \notin {IntNum(0), Str(<<"0">>)}
            THEN LoginOutcome(CloudError, "OAuth login failed",
                              GetOr(resp.top, "msg", Str(<<"Unknown error">>)),
                              FALSE, Null, FALSE, 0)
        ELSE IF resp.data.t = "list" /\ resp.data.n > 0
            THEN LoginOutcome(RawError, "AttributeError", Absent,
                              FALSE, Null, FALSE, 0)
        ELSE IF ~Truthy(tok)
            THEN LoginOutcome(CloudError,
                              "OAuth login succeeded but no access_token",
                              Absent, FALSE, Null, FALSE, 0)
        ELSE IF life.t = "exc"
            THEN LoginOutcome(RawError, life.s[1], Absent, TRUE, tok, FALSE, 0)
        ELSE LoginOutcome("", "", Absent, TRUE, tok, TRUE,
                          life.n - SafetyMargin)

\* api.py lines 247-304
_legacy_login(resp) ==
    LET top == IF Truthy(Get(resp.top, "token")) THEN Get(resp.top, "token")
               ELSE Get(resp.top, "access_token")
        d == IF PayloadTruthy(resp.data) THEN resp.data.d ELSE EmptyDict
        inner == IF Truthy(Get(d, "token")) THEN Get(d, "token")
                 ELSE Get(d, "access_token")
    IN  IF resp.kind /= "dict" THEN PostFailure("Legacy", resp)
        ELSE IF Truthy(top)
            THEN LoginOutcome("", "", Absent, TRUE, top, TRUE, LegacyLifetime)
        ELSE IF resp.data.t = "list" /\ resp.data.n > 0
            THEN LoginOutcome(RawError, "AttributeError", Absent,
                              FALSE, Null, FALSE, 0)
        ELSE IF Truthy(inner)
            THEN LoginOutcome("", "", Absent, TRUE, inner, TRUE,
                              LegacyLifetime)
        ELSE LoginOutcome(CloudError, "Legacy login succeeded but no token",
                          Absent, FALSE, Null, FALSE, 0)

\* api.py lines 111-168: the message of the error _request raises
RequestMessage(resp) ==
    IF resp.kind = "dict" /\ ~CodeOk(resp.code)
        THEN Msg("API error", GetOr(resp.top, "msg", Str(<<"Unknown error">>)),
                 <<>>)
    ELSE IF _request(resp) /= "" THEN Msg(resp.kind, Absent, <<>>)
    ELSE Msg("", Absent, <<>>)

(***************************************************************************)
(* The requests of the flow client.  cloud.tok and cloud.exp are _token    *)
(* and _token_expiry (hasExp tells whether the expiry is set), cloud.now   *)
(* is the clock.  cloud.last is the last answer received with the outcome  *)
(* of the operation that received it, cloud.login the outcome of the last  *)
(* login() with the strategies it tried, cloud.checked the outcome of the  *)
(* last token check; a new request forgets them.                           *)
(***************************************************************************)
MaxRequests == 2
MaxTicks == 2

CloudIdle ==
    [tok |-> Null, hasExp |-> FALSE, exp |-> 0, now |-> 0, ticks |-> 0,
     nreq |-> 0, pc |-> "idle", op |-> "", tried |-> <<>>,
     omsg |-> Msg("", Absent, <<>>), checked |-> "",
     last |-> [op |-> "", resp |-> NonDictEnvelope, err |-> "",
               msg |-> Msg("", Absent, <<>>)],
     login |-> [err |-> "", msg |-> Msg("", Absent, <<>>), tried |-> <<>>]]

\* the token check that does not look at the expiry
_ensure_tokenNoExpiry(f) == Truthy(f.tok)

\* api.py lines 92-96: TRUE when _ensure_token returns without a login
_ensure_token(f) == Truthy(f.tok) /\ f.hasExp /\ f.now < f.exp

\* the assignments a login strategy made before it returned or raised
Stored(f, o, name, resp) ==
    [f EXCEPT !.tok = IF o.setTok THEN o.tok ELSE @,
              !.hasExp = IF o.setExp THEN TRUE ELSE @,
              !.exp = IF o.setExp THEN f.now + o.life ELSE @,
              !.tried = Append(@, name),
              !.last = [op |-> name, resp |-> resp, err |-> o.err,
                        msg |-> o.msg]]

\* login() ends: with err = "" it returned True and _request goes on to send
\* the request, otherwise _request raises what login() raised
LoginEnds(f, err, msg) ==
    [f EXCEPT !.login = [err |-> err, msg |-> msg, tried |-> f.tried],
              !.pc = IF err = "" THEN "req_wait" ELSE "idle",
              !.nreq = IF err = "" THEN @ ELSE @ + 1]

\* the clock advances
Tick(d) ==
    /\ cloud.ticks < MaxTicks
    /\ cloud' = [cloud EXCEPT !.now = @ + d, !.ticks = @ + 1]
    /\ UNCHANGED <<parserVars, clientVars, fetchVars, loginVars>>

\* api.py lines 98-109: _request(auth_required=True) checks the token, then
\* either sends the request or starts login() with the OAuth post
StartRequest(op) ==
    /\ cloud.pc = "idle"
    /\ cloud.nreq < MaxRequests
    /\ LET f == [cloud EXCEPT !.op = op, !.tried = <<>>,
                                !.omsg = CloudIdle.omsg,
                                !.last = CloudIdle.last,
                                !.login = CloudIdle.login]
       IN  cloud' = IF _ensure_token(cloud)
                      THEN [f EXCEPT !.pc = "req_wait", !.checked = "valid"]
                      ELSE [f EXCEPT !.pc = "oauth_wait", !.checked = "login"]
    /\ UNCHANGED <<parserVars, clientVars, fetchVars, loginVars>>

\* api.py lines 306-314: the answer to the OAuth post
OAuthResponse(resp) ==
    /\ cloud.pc = "oauth_wait"
    /\ LET o == _oauth_login(resp)
           f == Stored(cloud, o, "oauth", resp)
       IN  cloud' = IF o.err = CloudError
                     THEN [f EXCEPT !.pc = "legacy_wait", !.omsg = o.msg]
                     ELSE LoginEnds(f, o.err, o.msg)
    /\ UNCHANGED <<parserVars, clientVars, fetchVars, loginVars>>

\* api.py lines 316-323: the answer to the legacy post; when it fails too,
\* login() raises with both messages joined
LegacyResponse(resp) ==
    /\ cloud.pc = "legacy_wait"
    /\ LET o == _legacy_login(resp)
           f == Stored(cloud, o, "legacy", resp)
       IN  cloud' = IF o.err = CloudError
                     THEN LoginEnds(f, CloudError,
                                    Msg("All login methods failed", Absent,
                                        <<cloud.omsg, o.msg>>))
                     ELSE LoginEnds(f, o.err, o.msg)
    /\ UNCHANGED <<parserVars, clientVars, fetchVars, loginVars>>

\* api.py lines 111-170: the answer to the authenticated request
RequestResponse(resp) ==
    /\ cloud.pc = "req_wait"
    /\ cloud' = [cloud EXCEPT !.pc = "idle", !.nreq = @ + 1,
                            !.last = [op |-> cloud.op, resp |-> resp,
                                      err |-> _request(resp),
                                      msg |-> RequestMessage(resp)]]
    /\ UNCHANGED <<parserVars, clientVars, fetchVars, loginVars>>

(***************************************************************************)
(* Part 3: the client SolArkAPI of solark_api.py with its callers, the     *)
(* setup of __init__.py and the update cycles of the coordinator.  Tasks   *)
(* are coroutines of one event loop; a step runs one call or one network   *)
(* event.                                                                  *)
(***************************************************************************)
NumTasks == 2
MaxCycles == 2

Tasks == 1..NumTasks

\* the exception classes of solark_api.py; "Exception" is any other one
AuthError == "SolArkAuthError"
ConnectionError == "SolArkConnectionError"
RateLimitError == "SolArkRateLimitError"
APIError == "SolArkAPIError"
OtherError == "Exception"

\* self.token: None, or the value the login response carried in the field
\* `field` when the login was made in mode `mode`
TokNone == [mode |-> "", field |-> "", v |-> "None"]

TokenOf(mode, field, v) ==
    IF v = "str" THEN [mode |-> mode, field |-> field, v |-> "str"]
    ELSE [mode |-> "", field |-> "", v |-> v]

\* truth value of self.token
TokenTruthy(tok) == tok.v = "str"

(***************************************************************************)
(* What the server can answer to a login request: a transport failure, an  *)
(* HTTP status, and for 200 a body that is not JSON, not an object, or an  *)
(* object with any of the token fields.                                    *)
(***************************************************************************)
Resp(kind, status, json) == [kind |-> kind, status |-> status, json |-> json]

Transport ==
    {Resp(k, 0, "none") : k \in {"timeout", "connector", "client"}}

HttpResp(status, json) == Resp("http", status, json)

LoginBodies ==
    [data : {"absent", "nondict", "dict"}, dtok : BOOLEAN, dacc : BOOLEAN,
     tok : BOOLEAN, acc : BOOLEAN, succ : {"absent", "true", "false"},
     val : {"str", "None", "empty"}]

NoBody ==
    [data |-> "absent", dtok |-> FALSE, dacc |-> FALSE, tok |-> FALSE,
     acc |-> FALSE, succ |-> "absent", val |-> "str"]

LoginResponses ==
    {[r |-> x, b |-> NoBody] :
        x \in Transport
              \cup {HttpResp(st, "none") : st \in {401, 403, 429, 500, 404}}
              \cup {HttpResp(200, j) : j \in {"ctype", "decode", "nondict"}}}
    \cup {[r |-> HttpResp(200, "dict"), b |-> b] : b \in LoginBodies}

\* a failing login that sets self.token to None
RaiseClearing(e) == [err |-> e, set |-> TRUE, tok |-> TokNone]

Raise(e) == [err |-> e, set |-> FALSE, tok |-> TokNone]
Return(tok) == [err |-> "", set |-> TRUE, tok |-> tok]

\* the login looking at the top-level token fields before those of data
_authenticate_with_modeTopFirst(mode, resp) ==
    LET r == resp.r
        b == resp.b
    IN  IF r.kind \in {"timeout", "connector", "client"}
            THEN Raise(ConnectionError)
        ELSE IF r.status = 401 THEN Raise(AuthError)
        ELSE IF r.status = 403 THEN Raise(AuthError)
        ELSE IF r.status = 429 THEN Raise(RateLimitError)
        ELSE IF r.status >= 500 THEN Raise(ConnectionError)
        ELSE IF r.status /= 200 THEN Raise(APIError)
        ELSE IF r.json = "ctype" THEN Raise(APIError)
        ELSE IF r.json = "decode" THEN Raise(OtherError)
        ELSE IF r.json /= "dict" THEN Raise(APIError)
        ELSE IF b.tok THEN Return(TokenOf(mode, "token", b.val))
        ELSE IF b.acc THEN Return(TokenOf(mode, "access_token", b.val))
        ELSE IF b.data = "dict" /\ b.dtok
            THEN Return(TokenOf(mode, "data.token", b.val))
        ELSE IF b.data = "dict" /\ b.dacc
            THEN Return(TokenOf(mode, "data.access_token", b.val))
        ELSE IF b.succ = "false" THEN Raise(AuthError)
        ELSE Raise(APIError)

\* lines 95-178: the outcome of one login request in the given mode
_authenticate_with_mode(mode, resp) ==
    LET r == resp.r
        b == resp.b
    IN  IF r.kind \in {"timeout", "connector", "client"}
            THEN Raise(ConnectionError)
        ELSE IF r.status = 401 THEN Raise(AuthError)
        ELSE IF r.status = 403 THEN Raise(AuthError)
        ELSE IF r.status = 429 THEN Raise(RateLimitError)
        ELSE IF r.status >= 500 THEN Raise(ConnectionError)
        ELSE IF r.status /= 200 THEN Raise(APIError)
        ELSE IF r.json = "ctype" THEN Raise(APIError)
        ELSE IF r.json = "decode" THEN Raise(OtherError)
        ELSE IF r.json /= "dict" THEN Raise(APIError)
        ELSE IF b.data = "dict" /\ b.dtok
            THEN Return(TokenOf(mode, "data.token", b.val))
        ELSE IF b.data = "dict" /\ b.dacc
            THEN Return(TokenOf(mode, "data.access_token", b.val))
        ELSE IF b.tok THEN Return(TokenOf(mode, "token", b.val))
        ELSE IF b.acc THEN Return(TokenOf(mode, "access_token", b.val))
        ELSE IF b.succ = "false" THEN Raise(AuthError)
        ELSE Raise(APIError)

(***************************************************************************)
(* What the server can answer to the plant-data request.                   *)
(***************************************************************************)
DataBodies ==
    [succ : {"absent", "true", "false"},
     msg : {"none", "plain", "auth", "nonstr"},
     payload : {"full", "empty"}]

NoData == [succ |-> "absent", msg |-> "none", payload |-> "empty"]

DataResponses ==
    {[r |-> x, b |-> NoData] :
        x \in Transport
              \cup {HttpResp(st, "none") :
                       st \in {400, 401, 403, 404, 429, 500, 302}}
              \cup {HttpResp(200, j) : j \in {"ctype", "decode", "nondict"}}}
    \cup {[r |-> HttpResp(200, "dict"), b |-> b] : b \in DataBodies}

\* lines 194-310: the outcome of the plant-data request; clear tells
\* whether self.token is set to None
_get_plant_data_response(resp) ==
    LET r == resp.r
        b == resp.b
        Fail(e, clear) == [err |-> e, clear |-> clear]
    IN  IF r.kind \in {"timeout", "connector", "client"}
            THEN Fail(ConnectionError, FALSE)
        ELSE IF r.status = 400 THEN Fail(APIError, FALSE)
        ELSE IF r.status = 401 THEN Fail(AuthError, TRUE)
        ELSE IF r.status = 403 THEN Fail(APIError, FALSE)
        ELSE IF r.status = 404 THEN Fail(APIError, FALSE)
        ELSE IF r.status = 429 THEN Fail(RateLimitError, FALSE)
        ELSE IF r.status >= 500 THEN Fail(ConnectionError, FALSE)
        ELSE IF r.status /= 200 THEN Fail(APIError, FALSE)
        ELSE IF r.json = "ctype" THEN Fail(APIError, FALSE)
        ELSE IF r.json = "decode" THEN Fail(OtherError, FALSE)
        ELSE IF r.json /= "dict" THEN Fail(APIError, FALSE)
        ELSE IF b.succ = "false"
            THEN IF b.msg = "nonstr" THEN Fail(OtherError, FALSE)
                 ELSE IF b.msg = "auth" THEN Fail(AuthError, TRUE)
                 ELSE Fail(APIError, FALSE)
        ELSE IF b.payload = "empty" THEN Fail(APIError, FALSE)
        ELSE Fail("", FALSE)

(***************************************************************************)
(* The tasks.  A task record holds the position of the coroutine (pc, the  *)
(* mode of the login request in flight, the phase of the cycle) and what   *)
(* the current operation did so far.                                       *)
(***************************************************************************)
IdleTask ==
    [op |-> "none", pc |-> "idle", mode |-> "", phase |-> "",
     joined |-> FALSE, sent |-> 0, strict |-> "", legacy |-> "",
     authres |-> "", auths |-> 0, fetches |-> 0,
     f1 |-> "", f2 |-> "", result |-> ""]

\* state after construction of the client; nothing has been called yet
ClientIdle ==
    /\ token = TokNone
    /\ lock = 0
    /\ waiters = <<>>
    /\ task = [t \in Tasks |-> IdleTask]
    /\ entry = "new"
    /\ started = 0
    /\ invalidated = FALSE

Modes == <<"Strict", "Legacy">>

\* lines 57-77: the first mode authenticate() tries
FirstMode == IF authMode = "Auto" THEN Modes[1] ELSE authMode

\* Auto mode going on to the next mode after a connection error as well
authenticateAnyError(am, mode, err) ==
    IF err = "" THEN [next |-> "", res |-> "ok"]
    ELSE IF am = "Auto" /\ err \in {AuthError, ConnectionError}
        THEN IF mode = Modes[1]
                THEN [next |-> Modes[2], res |-> ""]
                ELSE [next |-> "", res |-> AuthError]
    ELSE [next |-> "", res |-> err]

\* lines 57-77: what authenticate() does with the outcome err of the login
\* made in mode `mode`: try the next mode, return True, or raise
authenticate(am, mode, err) ==
    IF err = "" THEN [next |-> "", res |-> "ok"]
    ELSE IF am = "Auto" /\ err = AuthError
        THEN IF mode = Modes[1]
                THEN [next |-> Modes[2], res |-> ""]
                ELSE [next |-> "", res |-> AuthError]
    ELSE [next |-> "", res |-> err]

\* __init__.py lines 62-72: the setup's translation of authenticate()
async_setup_entry(res) ==
    IF res = "ok" THEN "ok"
    ELSE IF res = AuthError THEN "ConfigEntryAuthFailed"
    ELSE "ConfigEntryNotReady"

\* __init__.py lines 135-158: the outer try of _async_update_data, around
\* the first fetch
FirstFetch(err) ==
    IF err = "" THEN "ok"
    ELSE IF err = AuthError THEN "reauth"
    ELSE "UpdateFailed"

\* the handler reporting a second AuthError as a transient failure
InHandlerTransient(err) ==
    IF err = "" \/ err = "ok" THEN "ok"
    ELSE IF err = AuthError THEN "UpdateFailed"
    ELSE err

\* __init__.py lines 141-152: the try inside the SolArkAuthError handler,
\* around the re-authentication and the retried fetch
InHandler(err) ==
    IF err = "" \/ err = "ok" THEN "ok"
    ELSE IF err = AuthError THEN "ConfigEntryAuthFailed"
    ELSE err

Is401(resp) == resp.r.kind = "http" /\ resp.r.status = 401

Finish(rec, res) == [rec EXCEPT !.pc = "idle", !.mode = "", !.result = res]

\* authenticate() without the lock: the login request is sent at once
EnterAuthNoLock(t, rec) ==
    /\ lock' = lock
    /\ waiters' = waiters
    /\ task' = [task EXCEPT ![t] =
           [rec EXCEPT !.auths = @ + 1, !.pc = "login_wait",
                       !.mode = FirstMode, !.sent = 1, !.joined = FALSE]]

\* solark_api.py line 57: authenticate() is called by task t, whose record
\* is rec: it takes the lock and sends the first login request, or waits
EnterAuth(t, rec) ==
    LET r == [rec EXCEPT !.auths = @ + 1]
    IN  IF lock = 0 /\ waiters = <<>>
            THEN /\ lock' = t
                 /\ waiters' = waiters
                 /\ task' = [task EXCEPT ![t] =
                        [r EXCEPT !.pc = "login_wait", !.mode = FirstMode,
                                  !.sent = 1, !.joined = FALSE]]
            ELSE /\ lock' = lock
                 /\ waiters' = Append(waiters, t)
                 /\ task' = [task EXCEPT ![t] =
                        [r EXCEPT !.pc = "lock_wait", !.joined = TRUE]]

\* get_plant_data() sending the request whatever the token is
FetchCallAlways(rec, tok) ==
    [sent |-> TRUE,
     rec |-> [rec EXCEPT !.pc = "fetch_wait", !.fetches = @ + 1]]

\* solark_api.py lines 190-192 and 194-204: get_plant_data() is called by
\* task t with the token tok: without a token it raises AuthError at once
\* (err), else the request is sent
FetchCall(rec, tok) ==
    IF TokenTruthy(tok)
        THEN [sent |-> TRUE,
              rec |-> [rec EXCEPT !.pc = "fetch_wait", !.fetches = @ + 1]]
        ELSE [sent |-> FALSE, rec |-> [rec EXCEPT !.fetches = @ + 1]]

\* the first fetch of a cycle ended with err
AfterFirstFetch(t, rec, err) ==
    LET r == [rec EXCEPT !.f1 = IF err = "" THEN "ok" ELSE err]
    IN  IF FirstFetch(err) = "reauth"
            THEN EnterAuth(t, r)
            ELSE /\ task' = [task EXCEPT ![t] = Finish(r, FirstFetch(err))]
                 /\ UNCHANGED <<lock, waiters>>

\* the retried fetch of a cycle ended with err
AfterRetry(rec, err) ==
    Finish([rec EXCEPT !.f2 = IF err = "" THEN "ok" ELSE err], InHandler(err))

\* __init__.py line 62: the setup calls authenticate()
StartSetup(t) ==
    /\ entry = "new"
    /\ t = 1
    /\ entry' = "setup"
    /\ EnterAuth(t, [IdleTask EXCEPT !.op = "setup"])
    /\ UNCHANGED <<token, authMode, started, invalidated,
                   parserVars, fetchVars, cloudVars, loginVars>>

\* __init__.py line 136: an update cycle starts with the first fetch
StartUpdate(t) ==
    /\ entry = "ready"
    /\ task[t].pc = "idle"
    /\ started < MaxCycles
    /\ started' = started + 1
    /\ LET c == FetchCall([IdleTask EXCEPT !.op = "update",
                                           !.phase = "first"], token)
       IN  IF c.sent
               THEN /\ task' = [task EXCEPT ![t] = c.rec]
                    /\ UNCHANGED <<lock, waiters>>
               ELSE AfterFirstFetch(t, c.rec, AuthError)
    /\ UNCHANGED <<token, authMode, entry, invalidated,
                   parserVars, fetchVars, cloudVars, loginVars>>

\* asyncio.Lock: the first waiter gets the released lock and sends its login
AuthWake(t) ==
    /\ task[t].pc = "lock_wait"
    /\ lock = 0
    /\ waiters /= <<>>
    /\ Head(waiters) = t
    /\ lock' = t
    /\ waiters' = Tail(waiters)
    /\ task' = [task EXCEPT ![t] =
            [@ EXCEPT !.pc = "login_wait", !.mode = FirstMode, !.sent = 1]]
    /\ UNCHANGED <<token, authMode, entry, started, invalidated,
                   parserVars, fetchVars, cloudVars, loginVars>>

\* the caller of authenticate(), after it returned or raised res
AfterAuth(t, rec, res, tok) ==
    IF rec.op = "setup"
        THEN /\ task' = [task EXCEPT ![t] = Finish(rec, async_setup_entry(res))]
             /\ entry' = IF res = "ok" THEN "ready" ELSE "failed"
        ELSE /\ entry' = entry
             /\ IF res = "ok"
                    THEN LET c == FetchCall([rec EXCEPT !.phase = "retry"], tok)
                         IN  task' = [task EXCEPT ![t] =
                                 IF c.sent THEN c.rec
                                 ELSE AfterRetry(c.rec, AuthError)]
                    ELSE task' = [task EXCEPT ![t] = Finish(rec, InHandler(res))]

\* the login request of task t gets the answer resp
LoginResponse(t, resp) ==
    /\ task[t].pc = "login_wait"
    /\ LET rec == task[t]
           out == _authenticate_with_mode(rec.mode, resp)
           st == authenticate(authMode, rec.mode, out.err)
           kind == IF out.err = "" THEN "ok" ELSE out.err
           r1 == IF rec.mode = "Strict" THEN [rec EXCEPT !.strict = kind]
                 ELSE [rec EXCEPT !.legacy = kind]
       IN  /\ token' = IF out.set THEN out.tok ELSE token
           /\ invalidated' = IF out.set THEN FALSE
                             ELSE IF Is401(resp) THEN TRUE
                             ELSE invalidated
           /\ IF st.next /= ""
                  THEN /\ task' = [task EXCEPT ![t] =
                              [r1 EXCEPT !.mode = st.next, !.sent = @ + 1]]
                       /\ UNCHANGED <<lock, entry>>
                  ELSE /\ lock' = 0
                       /\ AfterAuth(t,
                              [r1 EXCEPT !.authres = st.res, !.mode = ""],
                              st.res, token')
    /\ UNCHANGED <<authMode, waiters, started,
                   parserVars, fetchVars, cloudVars, loginVars>>

\* the plant-data request of task t gets the answer resp
FetchResponse(t, resp) ==
    /\ task[t].pc = "fetch_wait"
    /\ LET rec == task[t]
           out == _get_plant_data_response(resp)
       IN  /\ token' = IF out.clear THEN TokNone ELSE token
           /\ invalidated' = IF Is401(resp) THEN TRUE ELSE invalidated
           /\ IF rec.phase = "first"
                  THEN AfterFirstFetch(t, rec, out.err)
                  ELSE /\ task' = [task EXCEPT ![t] = AfterRetry(rec, out.err)]
                       /\ UNCHANGED <<lock, waiters>>
    /\ UNCHANGED <<authMode, entry, started,
                   parserVars, fetchVars, cloudVars, loginVars>>

\* solark_api.py lines 312-314, called by async_unload_entry
Close ==
    /\ entry = "ready"
    /\ entry' = "closed"
    /\ token' = TokNone
    /\ invalidated' = TRUE
    /\ UNCHANGED <<authMode, lock, waiters, task, started,
                   parserVars, fetchVars, cloudVars, loginVars>>

(***************************************************************************)
(* One authenticate() of a fresh client, called by validate_input of the   *)
(* config flow (which goes on to get_plant_data) or by async_setup_entry.  *)
(* login.last is the last login answer with the outcome of the strategy    *)
(* that received it, login.tried the messages of the strategies that       *)
(* failed, login.err and login.msg what the call raised at login.stage,    *)
(* login.outcome what the caller made of it.                               *)
(***************************************************************************)
LoginIdle ==
    [pc |-> "idle", caller |-> "", cur |-> "", tried |-> <<>>, tok |-> TokNone,
     last |-> [mode |-> "", resp |-> [r |-> HttpResp(200, "none"),
                                      b |-> NoBody, m |-> EmptyDict],
               err |-> "", msg |-> Msg("", Absent, <<>>)],
     stage |-> "", err |-> "", msg |-> Msg("", Absent, <<>>), outcome |-> ""]

\* the login answers with the members message, Message and msg of the body
LoginAnswers ==
    {[r |-> x.r, b |-> x.b, m |-> EmptyDict] : x \in LoginResponses}
    \cup {[r |-> HttpResp(200, "dict"), b |-> [NoBody EXCEPT !.succ = "false"],
           m |-> [k \in {x \in {"message", "Message", "msg"} : all[x] /= Absent}
                    |-> all[k]]] :
            all \in [message : {Absent, Str(<<>>), X},
                     Message : {Absent, Str(<<"2">>)},
                     msg : {Absent, Str(<<"-">>)}]}

\* solark_api.py lines 110-178: the message of the error that
\* _authenticate_with_mode raises
LoginMessage(mode, resp) ==
    LET err == _authenticate_with_mode(mode, resp).err
        m == resp.m
        embedded == IF Truthy(Get(m, "message")) THEN Get(m, "message")
                    ELSE IF Truthy(Get(m, "Message")) THEN Get(m, "Message")
                    ELSE IF Truthy(Get(m, "msg")) THEN Get(m, "msg")
                    ELSE Str(<<"Authentication failed">>)
    IN  IF err = "" THEN Msg("", Absent, <<>>)
        ELSE IF resp.r.kind = "http" /\ resp.r.status = 200
                /\ resp.r.json = "dict" /\ err = AuthError
            THEN Msg("Authentication failed", embedded, <<>>)
        ELSE IF resp.r.kind = "http" /\ resp.r.status = 200
                /\ resp.r.json = "dict"
            THEN Msg("Authentication response missing token", Absent, <<>>)
        ELSE IF resp.r.kind = "http" /\ resp.r.status = 401
            THEN Msg("Invalid credentials (401)", Absent, <<>>)
        ELSE IF resp.r.kind = "http" /\ resp.r.status = 403
            THEN Msg("Access forbidden (403)", Absent, <<>>)
        ELSE Msg(err, Absent, <<>>)

\* config_flow.py lines 45-86 and 104-121: the error key the config flow
\* shows for err raised at the stage "auth" or "fetch"
validate_input(stage, err) ==
    IF err = "" THEN "created"
    ELSE IF err = AuthError THEN "invalid_auth"
    ELSE IF err = ConnectionError THEN "cannot_connect"
    ELSE IF stage = "fetch" /\ err \in {APIError, RateLimitError}
        THEN "invalid_plant_id"
    ELSE "unknown"

\* config_flow.py line 47 and __init__.py line 63: authenticate() is called
StartLogin(caller) ==
    /\ login.pc = "idle"
    /\ login' = [login EXCEPT !.pc = "auth_wait", !.caller = caller,
                              !.cur = FirstMode, !.stage = "auth"]
    /\ UNCHANGED <<parserVars, clientVars, fetchVars, cloudVars>>

\* solark_api.py lines 55-77: the answer to the login request made in mode
\* login.cur; authenticate() tries the next mode, returns or raises, and the
\* caller translates what it raised
LoginAnswer(resp) ==
    /\ login.pc = "auth_wait"
    /\ LET o == _authenticate_with_mode(login.cur, resp)
           msg == LoginMessage(login.cur, resp)
           a == authenticate(authMode, login.cur, o.err)
           l == [login EXCEPT
                   !.tok = IF o.set THEN o.tok ELSE @,
                   !.tried = IF o.err = "" THEN @ ELSE Append(@, msg),
                   !.last = [mode |-> login.cur, resp |-> resp,
                             err |-> o.err, msg |-> msg]]
           exhausted == authMode = "Auto" /\ o.err = AuthError
           raised == IF exhausted
                        THEN Msg("Authentication failed with all modes",
                                 Absent, <<>>)
                        ELSE msg
       IN  login' =
             IF a.next /= "" THEN [l EXCEPT !.cur = a.next]
             ELSE IF a.res = "ok" /\ login.caller = "config"
                 THEN [l EXCEPT !.pc = "fetch_wait", !.stage = "fetch",
                                !.last = LoginIdle.last]
             ELSE [l EXCEPT !.pc = "done",
                            !.err = IF a.res = "ok" THEN "" ELSE a.res,
                            !.msg = raised,
                            !.outcome = IF login.caller = "config"
                                           THEN validate_input("auth", a.res)
                                           ELSE async_setup_entry(a.res)]
    /\ UNCHANGED <<parserVars, clientVars, fetchVars, cloudVars>>

\* config_flow.py lines 62-86: get_plant_data() of the validation, which
\* raises AuthError without a request when the token is not usable
ValidateFetch(resp) ==
    /\ login.pc = "fetch_wait"
    /\ LET err == IF TokenTruthy(login.tok)
                     THEN _get_plant_data_response(resp).err
                     ELSE AuthError
       IN  login' = [login EXCEPT !.pc = "done", !.err = err,
                                  !.outcome = validate_input("fetch", err)]
    /\ UNCHANGED <<parserVars, clientVars, fetchVars, cloudVars>>

\* the normaliser is not called by the client model
ParserIdle ==
    /\ data = NonDict
    /\ sensors = EmptyDict
    /\ pc = "start"

InitClient ==
    /\ authMode \in {"Auto", "Strict", "Legacy"}
    /\ ClientIdle
    /\ cloud = CloudIdle
    /\ login = LoginIdle
    /\ ParserIdle
    /\ fetch = FetchIdle

NextClient ==
    \/ \E t \in Tasks : StartSetup(t)
    \/ \E t \in Tasks : StartUpdate(t)
    \/ \E t \in Tasks : AuthWake(t)
    \/ \E t \in Tasks : \E resp \in LoginResponses : LoginResponse(t, resp)
    \/ \E t \in Tasks : \E resp \in DataResponses : FetchResponse(t, resp)
    \/ Close

SpecClient == InitClient /\ [][NextClient]_vars

\* Every login request ends: by its answer, by a transport error, or by the
\* timeout of line 96; and the event loop runs a caller whose lock wait is
\* over.
SpecClientFair ==
    /\ SpecClient
    /\ \A t \in Tasks :
           /\ WF_vars(AuthWake(t))
           /\ WF_vars(\E resp \in LoginResponses : LoginResponse(t, resp))

(***************************************************************************)
(* The answers of the three endpoints.                                     *)
(***************************************************************************)
\* every object with keys among ks and values among vs
DictsOver(ks, vs) == UNION {[K -> vs] : K \in SUBSET ks}

\* an entry of the inverter list
Entry(sn, deviceSn, etoday, etotal) ==
    LET all == [sn |-> sn, deviceSn |-> deviceSn, etoday |-> etoday,
                etotal |-> etotal]
    IN  [k \in {x \in DOMAIN all : all[x] /= Absent} |-> all[k]]

Entries ==
    {Entry(sn, dsn, et, tt) :
        sn \in {Absent, Null, X}, dsn \in {Absent, X},
        et \in {Absent, Null, IntNum(2)}, tt \in {Absent, Null, IntNum(2)}}

InverterLists ==
    {EmptyDict, "infos" :> <<>>}
    \cup {k :> <<e>> : k \in {"infos", "list", "records"}, e \in Entries}
    \cup {("infos" :> <<>>) @@ ("records" :> <<e>>) : e \in Entries}
    \cup {("list" :> <<e, Entry(X, X, Null, Null)>>) : e \in Entries}

InvEnvelopes ==
    FailedEnvelopes \cup {NonDictEnvelope}
    \cup {Envelope("dict", c, p, EmptyDict) :
            c \in Codes,
            p \in {NoPayload, NullPayload, ListPayload(0), ListPayload(1)}}
    \cup {Envelope("dict", c, DictPayload(d), EmptyDict) :
            c \in Codes, d \in InverterLists}

LiveDicts ==
    DictsOver({"pvPower", "energyToday", "energyTotal", "temp"},
              {Null, IntNum(1)})

TopDicts == {EmptyDict, "pvPower" :> IntNum(1)}

LiveEnvelopes ==
    FailedEnvelopes \cup {NonDictEnvelope}
    \cup {Envelope("dict", c, p, t) :
            c \in Codes, t \in TopDicts,
            p \in {NoPayload, NullPayload, ListPayload(1)}
                  \cup {DictPayload(d) : d \in LiveDicts}}

FlowDicts ==
    DictsOver({"pvPower", "soc", "energyToday", "temp"}, {Null, IntNum(2)})

FlowEnvelopes ==
    FailedEnvelopes \cup {NonDictEnvelope}
    \cup {Envelope("dict", c, p, t) :
            c \in Codes, t \in TopDicts,
            p \in {NoPayload, NullPayload, ListPayload(1)}
                  \cup {DictPayload(d) : d \in FlowDicts}}

InitFetch ==
    /\ fetch = FetchIdle
    /\ cloud = CloudIdle
    /\ login = LoginIdle
    /\ authMode = "Auto"
    /\ ClientIdle
    /\ ParserIdle

NextFetch ==
    \/ StartFetch
    \/ \E o \in EnsureOutcomes : EnsureToken(o)
    \/ \E resp \in InvEnvelopes : InvResponse(resp)
    \/ \E resp \in LiveEnvelopes : LiveResponse(resp)
    \/ \E resp \in FlowEnvelopes : FlowResponse(resp)

SpecFetch == InitFetch /\ [][NextFetch]_vars

(***************************************************************************)
(* The answers of the two login endpoints and of an authenticated request, *)
(* and the flow client doing up to MaxRequests authenticated requests      *)
(* while the clock advances.                                               *)
(***************************************************************************)
\* the answers to the request `op`; Members is the dict of the members that
\* are not Absent
AuthEnvelopes(op) ==
    LET Members(all) == [k \in {x \in DOMAIN all : all[x] /= Absent} |-> all[k]]
        tokens == {Absent, Null, Str(<<>>), X}
        lifetimes == {Absent, Null, X, Str(<<"2">>), IntNum(LegacyLifetime),
                      Half}
        msgs == {Absent, X}
    IN  FailedEnvelopes \cup {NonDictEnvelope}
        \cup
        CASE op = "oauth" ->
                {Envelope("dict", c, DictPayload("access_token" :> X),
                          Members([msg |-> m])) : c \in Codes, m \in msgs}
                \cup {Envelope("dict", IntNum(0), p, EmptyDict) :
                        p \in {NoPayload, NullPayload, ListPayload(1)}
                              \cup {DictPayload(Members(
                                        [access_token |-> a, token |-> k,
                                         expires_in |-> e])) :
                                      a \in tokens, k \in {Absent, X},
                                      e \in lifetimes}}
          [] op = "legacy" ->
                {Envelope("dict", c, NoPayload,
                          Members([msg |-> m, token |-> X])) :
                    c \in Codes, m \in msgs}
                \cup {Envelope("dict", Absent, p,
                               Members([token |-> k, access_token |-> a,
                                        expires_in |-> e])) :
                        k \in {Absent, Str(<<>>), X}, a \in {Absent, X},
                        e \in {Absent, IntNum(DefaultLifetime)},
                        p \in {NoPayload, ListPayload(1),
                               DictPayload("token" :> X)}}
          [] OTHER ->
                {Envelope("dict", c, NoPayload, Members([msg |-> m])) :
                    c \in Codes, m \in msgs}

InitFlowAuth ==
    /\ cloud = CloudIdle
    /\ login = LoginIdle
    /\ fetch = FetchIdle
    /\ authMode = "Auto"
    /\ ClientIdle
    /\ ParserIdle

NextFlowAuth ==
    \/ \E d \in {1, LegacyLifetime} : Tick(d)
    \/ \E op \in {"inverters", "live", "flow"} : StartRequest(op)
    \/ \E resp \in AuthEnvelopes("oauth") : OAuthResponse(resp)
    \/ \E resp \in AuthEnvelopes("legacy") : LegacyResponse(resp)
    \/ \E resp \in AuthEnvelopes("request") : RequestResponse(resp)

SpecFlowAuth == InitFlowAuth /\ [][NextFlowAuth]_vars

(***************************************************************************)
(* One validation of the config flow or one authentication of the setup,   *)
(* in each of the three modes.                                             *)
(***************************************************************************)
InitLogin ==
    /\ login = LoginIdle
    /\ cloud = CloudIdle
    /\ fetch = FetchIdle
    /\ authMode \in {"Auto", "Strict", "Legacy"}
    /\ ClientIdle
    /\ ParserIdle

NextLogin ==
    \/ \E caller \in {"config", "setup"} : StartLogin(caller)
    \/ \E resp \in LoginAnswers : LoginAnswer(resp)
    \/ \E resp \in DataResponses : ValidateFetch(resp)

SpecLogin == InitLogin /\ [][NextLogin]_vars

(***************************************************************************)
(* The state machine: the coordinator hands one raw record to the          *)
(* normaliser, which returns the sensors dict.                             *)
(***************************************************************************)
Init ==
    /\ Inputs
    /\ sensors = EmptyDict
    /\ pc = "start"
    /\ authMode = "Auto"
    /\ ClientIdle
    /\ fetch = FetchIdle
    /\ cloud = CloudIdle
    /\ login = LoginIdle

Parse ==
    /\ pc = "start"
    /\ sensors' = parse_plant_data(data)
    /\ pc' = "returned"
    /\ UNCHANGED <<data, clientVars, fetchVars, cloudVars, loginVars>>

Next == Parse

Spec == Init /\ [][Next]_vars

(***************************************************************************)
(* Properties of the normaliser.                                           *)
(***************************************************************************)
Returned == pc = "returned" /\ data.isdict

\* the coerced value of field k of the record, 0.0 when k is absent
Field(k) == IF k \in DOMAIN data.f THEN _safe_float(data.f[k]) ELSE Zero

NineKeys ==
    {"pv_power", "battery_power", "grid_power", "load_power",
     "grid_import_power", "grid_export_power", "battery_soc",
     "energy_today", "energy_total"}

MeterSum == FAdd(FAdd(Field("meterA"), Field("meterB")), Field("meterC"))

\* C2: a positive meter sum is the import and the export is 0, a negative one
\* gives export = abs(sum) and import 0, whatever flag, gridOrMeterPower or
\* explicit import/export fields the record also has.
C2_MeterSumWins ==
    Returned =>
        /\ FPos(MeterSum) =>
              /\ sensors["grid_import_power"] = MeterSum
              /\ sensors["grid_export_power"] = Zero
        /\ FNeg(MeterSum) =>
              /\ sensors["grid_export_power"] = FAbs(MeterSum)
              /\ sensors["grid_import_power"] = Zero

\* a positive meter sum beside toGrid = true, a non-zero gridOrMeterPower
\* and an explicit gridExportPower
C2_Witness ==
    /\ Returned
    /\ FPos(MeterSum)
    /\ "toGrid" \in DOMAIN data.f /\ data.f["toGrid"] = Bool(TRUE)
    /\ ~FIsZero(Field("gridOrMeterPower"))
    /\ "gridExportPower" \in DOMAIN data.f
    /\ sensors["grid_import_power"] = MeterSum

\* the product volt{i} * current{i} of the record, a missing member being 0
PairProduct(i) == FMul(Field(VoltKeys[i]), Field(CurrentKeys[i]))

RECURSIVE SumProducts(_)
SumProducts(I) ==
    IF I = {} THEN Zero
    ELSE LET i == CHOOSE j \in I : TRUE
         IN  FAdd(PairProduct(i), SumProducts(I \ {i}))

\* C3: without pvPower, pv_power is the sum of volt{i} * current{i} over the
\* string indices 1..12.
C3_PvPowerIsStringSum ==
    (Returned /\ "pvPower" \notin DOMAIN data.f) =>
        sensors["pv_power"] = SumProducts(1..NumStrings)

\* two strings with non-zero products, no pvPower
C3_Witness ==
    /\ Returned
    /\ "pvPower" \notin DOMAIN data.f
    /\ Cardinality({i \in 1..NumStrings : ~FIsZero(PairProduct(i))}) >= 2
    /\ ~FIsZero(sensors["pv_power"])

\* C5: when pvPower is present pv_power is its coerced value, whatever the
\* volt / current fields are.
C5_PvPowerPreferred ==
    (Returned /\ "pvPower" \in DOMAIN data.f) =>
        sensors["pv_power"] = _safe_float(data.f["pvPower"])

\* pvPower beside strings whose products sum to something else
C5_Witness ==
    /\ Returned
    /\ "pvPower" \in DOMAIN data.f
    /\ ~FIsZero(SumProducts(1..NumStrings))
    /\ SumProducts(1..NumStrings) /= _safe_float(data.f["pvPower"])
    /\ sensors["pv_power"] = _safe_float(data.f["pvPower"])

\* C4: without pvPower, every string i in 1..12 with a non-zero product
\* volt{i} * current{i} appears in the result as pv_string_{i}_power with
\* that product as its value.
C4_PvStringKeysExposed ==
    (Returned /\ "pvPower" \notin DOMAIN data.f) =>
        \A i \in 1..NumStrings :
            ~FIsZero(PairProduct(i)) =>
                /\ PvStringKeys[i] \in DOMAIN sensors
                /\ sensors[PvStringKeys[i]] = PairProduct(i)

\* toGrid / gridTo is in the record and true
FlagTrue(k) == k \in DOMAIN data.f /\ Truthy(data.f[k])

\* C6: with a zero meter sum and toGrid or gridTo present and true, a
\* non-zero gridOrMeterPower is the export (as abs) when toGrid is true and
\* the import (as abs) otherwise, the other output being 0; a zero or absent
\* gridOrMeterPower leaves both at 0.0.
C6_FlagDirection ==
    (Returned /\ FIsZero(MeterSum) /\ (FlagTrue("toGrid") \/ FlagTrue("gridTo"))) =>
        LET gom == Field("gridOrMeterPower")
        IN  /\ (~FIsZero(gom) /\ FlagTrue("toGrid")) =>
                  /\ sensors["grid_export_power"] = FAbs(gom)
                  /\ sensors["grid_import_power"] = Zero
            /\ (~FIsZero(gom) /\ ~FlagTrue("toGrid")) =>
                  /\ sensors["grid_import_power"] = FAbs(gom)
                  /\ sensors["grid_export_power"] = Zero
            /\ FIsZero(gom) =>
                  /\ sensors["grid_import_power"] = Zero
                  /\ sensors["grid_export_power"] = Zero
            /\ FIsZero(sensors["grid_import_power"])
                  \/ FIsZero(sensors["grid_export_power"])

\* only gridTo is true, gridOrMeterPower is negative and explicit fields
\* are present: the import is the absolute value
C6_Witness ==
    /\ Returned
    /\ FIsZero(MeterSum)
    /\ FlagTrue("gridTo") /\ ~FlagTrue("toGrid")
    /\ FNeg(Field("gridOrMeterPower"))
    /\ "gridImportPower" \in DOMAIN data.f
    /\ sensors["grid_import_power"] = FAbs(Field("gridOrMeterPower"))
    /\ sensors["grid_export_power"] = Zero

\* the record without its explicit gridImportPower / gridExportPower fields
WithoutExplicit ==
    [isdict |-> TRUE,
     f |-> [k \in DOMAIN data.f \ {"gridImportPower", "gridExportPower"} |->
                data.f[k]]]

\* C7: with a zero meter sum and no true direction flag the two outputs are
\* the coerced gridImportPower / gridExportPower at face value (0.0 for an
\* absent field); in every other case the outputs are what they would be
\* without the explicit fields.
C7_ExplicitFieldsLast ==
    Returned =>
        IF FIsZero(MeterSum) /\ ~FlagTrue("toGrid") /\ ~FlagTrue("gridTo")
        THEN /\ sensors["grid_import_power"] = Field("gridImportPower")
             /\ sensors["grid_export_power"] = Field("gridExportPower")
        ELSE LET other == parse_plant_data(WithoutExplicit)
             IN  /\ sensors["grid_import_power"] = other["grid_import_power"]
                 /\ sensors["grid_export_power"] = other["grid_export_power"]

\* negative explicit fields come out negative, and both non-zero
C7_Witness ==
    /\ Returned
    /\ FIsZero(MeterSum) /\ ~FlagTrue("toGrid") /\ ~FlagTrue("gridTo")
    /\ FNeg(Field("gridImportPower"))
    /\ sensors["grid_import_power"] = Field("gridImportPower")
    /\ FNeg(sensors["grid_export_power"])

\* C8: without soc, battery_soc is (curCap / batteryCap) * 100 when
\* batteryCap > 0 and 0.0 when batteryCap is 0, negative, absent or
\* unparseable; with soc it is the coerced soc.
C8_BatterySoc ==
    Returned =>
        IF "soc" \in DOMAIN data.f
        THEN sensors["battery_soc"] = _safe_float(data.f["soc"])
        ELSE IF FPos(Field("batteryCap"))
        THEN /\ IsNum(sensors["battery_soc"])
             /\ FMul(sensors["battery_soc"], Field("batteryCap"))
                    = FMul(Field("curCap"), IntNum(100))
        ELSE sensors["battery_soc"] = Zero

\* the example of the specification: curCap = 50, batteryCap = 200 gives 25
C8_Witness ==
    /\ Returned
    /\ "soc" \notin DOMAIN data.f
    /\ Field("curCap") = IntNum(50) /\ Field("batteryCap") = IntNum(200)
    /\ sensors["battery_soc"] = IntNum(25)

\* C9: without loadOrEpsPower, load_power is
\* inverterOutputVoltage * curCurrent * (pf if pf is non-zero, else 1.0).
C9_LoadPowerFallback ==
    (Returned /\ "loadOrEpsPower" \notin DOMAIN data.f) =>
        sensors["load_power"] =
            FMul(FMul(Field("inverterOutputVoltage"), Field("curCurrent")),
                 IF FIsZero(Field("pf")) THEN IntNum(1) ELSE Field("pf"))

\* C10: without gridOrMeterPower and with a non-zero meter sum, grid_power is
\* the meter sum; with gridOrMeterPower it is the coerced field.
C10_GridPowerFallback ==
    Returned =>
        /\ ("gridOrMeterPower" \notin DOMAIN data.f /\ ~FIsZero(MeterSum)) =>
               sensors["grid_power"] = MeterSum
        /\ "gridOrMeterPower" \in DOMAIN data.f =>
               sensors["grid_power"] = _safe_float(data.f["gridOrMeterPower"])

FlowKeys ==
    {"pvPower", "battPower", "gridOrMeterPower", "loadOrEpsPower", "soc",
     "energyToday"}

\* C11: a record with only the flow fields normalises to exactly the nine
\* guaranteed keys; pv_power, battery_power, grid_power, load_power,
\* battery_soc and energy_today are the input values with their sign, and
\* grid_import_power, grid_export_power and energy_total are 0.0.
C11_FlowOnlyRecord ==
    (Returned /\ DOMAIN data.f \subseteq FlowKeys
              /\ \A k \in DOMAIN data.f : IsNum(data.f[k])) =>
        /\ DOMAIN sensors = NineKeys
        /\ sensors["pv_power"] = Field("pvPower")
        /\ sensors["battery_power"] = Field("battPower")
        /\ sensors["grid_power"] = Field("gridOrMeterPower")
        /\ sensors["load_power"] = Field("loadOrEpsPower")
        /\ sensors["battery_soc"] = Field("soc")
        /\ sensors["energy_today"] = Field("energyToday")
        /\ sensors["grid_import_power"] = Zero
        /\ sensors["grid_export_power"] = Zero
        /\ sensors["energy_total"] = Zero

\* all six flow fields present, battPower negative and kept negative, a
\* non-zero gridOrMeterPower leaving import and export at 0.0
C11_Witness ==
    /\ Returned
    /\ DOMAIN data.f = FlowKeys
    /\ FNeg(data.f["battPower"])
    /\ sensors["battery_power"] = data.f["battPower"]
    /\ ~FIsZero(sensors["grid_power"])
    /\ sensors["grid_import_power"] = Zero
    /\ sensors["energy_today"] = Half

(***************************************************************************)
(* Properties of the client and of the update cycle (SpecClient).          *)
(***************************************************************************)
\* task t's authenticate() call ends in this step
AuthEnds(t) == task[t].pc = "login_wait" /\ task'[t].pc /= "login_wait"

\* the token a login in the given mode can store
TokensOf(mode) ==
    {TokenOf(mode, f, v) :
        f \in {"data.token", "data.access_token", "token", "access_token"},
        v \in {"str", "None", "empty"}}

\* C12: in Auto mode a Legacy login request is only ever sent after the
\* Strict login of the same call failed with AuthError; when the call ends:
\* after a Strict success no Legacy request was made; after a Strict
\* AuthError and a Legacy success the call returns success and the stored
\* token is the one of the Legacy response; after a Strict ConnectionError
\* the call raises ConnectionError and made no Legacy request.
C12_AutoOrder ==
    [][authMode = "Auto" =>
        \A t \in Tasks :
            /\ (task'[t].pc = "login_wait" /\ task'[t].mode = "Legacy")
                   => task'[t].strict = AuthError
            /\ AuthEnds(t) =>
                   LET r == task'[t]
                   IN  /\ r.strict = "ok" =>
                           r.authres = "ok" /\ r.legacy = "" /\ r.sent = 1
                       /\ (r.strict = AuthError /\ r.legacy = "ok") =>
                           /\ r.authres = "ok"
                           /\ token' \in TokensOf("Legacy")
                       /\ r.strict = ConnectionError =>
                           /\ r.authres = ConnectionError
                           /\ r.legacy = ""
                           /\ r.sent = 1]_vars

C12_Witness ==
    /\ authMode = "Auto"
    /\ \E t \in Tasks :
           /\ task[t].strict = AuthError
           /\ task[t].legacy = "ok"
           /\ task[t].authres = "ok"
           /\ token.mode = "Legacy"
    /\ \E t \in Tasks :
           /\ task[t].strict = ConnectionError
           /\ task[t].authres = ConnectionError
           /\ task[t].sent = 1

\* C13: a caller whose authenticate() was invoked while another caller's
\* login attempt held the lock issues no login request of its own: it
\* gets the outcome of the attempt in flight.
C13_OneLoginForTwoCallers ==
    \A t \in Tasks :
        (task[t].joined /\ task[t].pc /= "lock_wait") => task[t].sent = 0

\* the callers whose login request is in flight
InFlight == {t \in Tasks : task[t].pc = "login_wait"}

\* C14: at most one login request of the client is in flight at any time,
\* the lock is held exactly while its holder's attempt is in flight (it is
\* released when the attempt ends, by success or by any error), and every
\* caller waiting for the lock eventually gets past the wait.
C14_LoginMutex ==
    /\ [](/\ Cardinality(InFlight) <= 1
          /\ lock /= 0 => task[lock].pc = "login_wait"
          /\ \A t \in InFlight : lock = t)
    /\ \A t \in Tasks :
           (task[t].pc = "lock_wait") ~> (task[t].pc /= "lock_wait")

C14_Witness ==
    \E t, u \in Tasks :
        /\ t /= u
        /\ task[u].authres \notin {"", "ok"}
        /\ task[t].joined
        /\ task[t].pc = "login_wait"
        /\ lock = t

\* the update cycles, running or finished
Cycles == {t \in Tasks : task[t].op = "update"}

\* C15: a cycle calls authenticate() exactly when its first fetch raised
\* AuthError, and at most once; it fetches a second time exactly when that
\* re-authentication succeeded, and never a third time; it ends with
\* ConfigEntryAuthFailed when the re-authentication or the retry raised
\* AuthError, and returns the data when the retry succeeded.
C15_OneReauthOneRetry ==
    \A t \in Cycles :
        LET r == task[t]
        IN  /\ r.auths <= 1 /\ r.fetches <= 2
            /\ r.auths = (IF r.f1 = AuthError THEN 1 ELSE 0)
            /\ r.fetches = (IF r.authres = "ok" THEN 2 ELSE 1)
            /\ r.authres /= "" => r.auths = 1
            /\ r.f2 /= "" => r.authres = "ok"
            /\ (r.pc = "idle" /\ r.authres = AuthError) =>
                   r.result = "ConfigEntryAuthFailed"
            /\ (r.pc = "idle" /\ r.f2 = AuthError) =>
                   r.result = "ConfigEntryAuthFailed"
            /\ (r.pc = "idle" /\ r.f2 = "ok") => r.result = "ok"

C15_Witness ==
    /\ \E t \in Cycles :
           /\ task[t].pc = "idle"
           /\ task[t].f1 = AuthError
           /\ task[t].authres = "ok"
           /\ task[t].f2 = "ok"
           /\ task[t].result = "ok"
    /\ \E t \in Cycles :
           /\ task[t].pc = "idle"
           /\ task[t].f2 = AuthError
           /\ task[t].result = "ConfigEntryAuthFailed"

\* C16: a finished update cycle returned the data or raised UpdateFailed or
\* ConfigEntryAuthFailed, whichever step failed and however.
C16_OnlyHostExceptions ==
    \A t \in Cycles :
        (task[t].pc = "idle") =>
            task[t].result \in {"ok", "UpdateFailed", "ConfigEntryAuthFailed"}

\* C17: from any HTTP 401 answer or close() until the next successful
\* login (the history variable invalidated) the stored token is absent
\* (None, or the empty string that get_plant_data treats like None).
C17_TokenInvalidated == invalidated => ~TokenTruthy(token)

(***************************************************************************)
(* Properties of the telemetry fetcher (SpecFetch).                        *)
(***************************************************************************)
FetchDone == fetch.pc = "done"

\* C18: when the inverter list is empty or its first entry has no serial
\* number, get_plant_data returns the empty record and raises nothing,
\* whatever the power-flow request returns.
C18_EmptyWithoutDevice ==
    (FetchDone /\ fetch.nodevice) => (fetch.err = "" /\ fetch.out = EmptyDict)

\* the live record before the flow overlay
LiveRecord ==
    IF fetch.gotLive
        THEN EnergyOverlay(fetch.liveIn, fetch.etoday, fetch.etotal)
        ELSE EmptyDict

\* C19: after a failure of the power-flow request or of the token refresh
\* made for it, get_plant_data raises nothing and returns the live record
\* with nothing from the flow; after a failure of the inverter-list or
\* live request (or of the token refresh made for it) it raises that error
\* and returns nothing.
C19_OnlyFlowFailureSwallowed ==
    FetchDone =>
        /\ fetch.failed = "flow" =>
               /\ fetch.err = ""
               /\ fetch.flowIn = EmptyDict
               /\ fetch.out = LiveRecord
        /\ fetch.failed \in {"inv", "live"} =>
               /\ fetch.err \in {CloudError, RawError}
               /\ fetch.out = EmptyDict

C19_Witness ==
    /\ FetchDone
    /\ fetch.failed = "flow"
    /\ fetch.gotLive
    /\ fetch.out /= EmptyDict
    /\ fetch.err = ""

NonNull(v) == v.t \notin {"absent", "null"}

C21_EnvelopeCodeChecked ==
    (cloud.last.op /= "" /\ cloud.last.resp.kind = "dict") =>
        LET r == cloud.last.resp
        IN  /\ ~CodeOk(r.code) =>
                  /\ cloud.last.err = CloudError
                  /\ cloud.last.msg.vendor =
                         GetOr(r.top, "msg", Str(<<"Unknown error">>))
            /\ CodeOk(r.code) =>
                  ~(/\ cloud.last.err /= ""
                    /\ cloud.last.msg.text \in {"OAuth login failed",
                                                "API error"})

\* C24: in every step in which a login succeeds, the expiry stored is the
\* instant of the login plus the lifetime the answer declares (expires_in)
\* minus 60 seconds, and the instant of the login plus 30 minutes when the
\* answer declares none.
C24_ExpiryFromLifetime ==
    [][(/\ cloud.pc \in {"oauth_wait", "legacy_wait"}
        /\ cloud'.pc = "req_wait") =>
           LET r == cloud'.last.resp
               d == IF r.data.t = "dict" THEN r.data.d ELSE EmptyDict
               declared == IF Has(d, "expires_in") THEN d["expires_in"]
                           ELSE IF Has(r.top, "expires_in")
                               THEN r.top["expires_in"]
                           ELSE Absent
           IN  /\ cloud'.hasExp
               /\ declared /= Absent =>
                     cloud'.exp = cloud.now + PyInt(declared).n - 60
               /\ declared = Absent => cloud'.exp = cloud.now + 30 * 60]_vars

\* C27: a request starts with the token check; the check issues a login
\* exactly when the token or the expiry is absent or the clock is at or past
\* the expiry, and sends the request at once otherwise; a login request is
\* made only by such a login; and the authenticated request is sent only
\* after a passed check or a login that succeeded, with a token present.
C27_TokenCheckedBeforeRequest ==
    [][LET stale == \/ ~Truthy(cloud.tok)
                    \/ ~cloud.hasExp
                    \/ cloud.now >= cloud.exp
       IN  /\ (cloud.pc = "idle" /\ cloud'.pc /= "idle") =>
                 /\ stale => (cloud'.pc = "oauth_wait"
                              /\ cloud'.checked = "login")
                 /\ ~stale => (cloud'.pc = "req_wait"
                               /\ cloud'.checked = "valid")
           /\ (cloud'.pc = "oauth_wait" /\ cloud.pc /= "oauth_wait") =>
                 cloud.pc = "idle"
           /\ (cloud'.pc = "legacy_wait" /\ cloud.pc /= "legacy_wait") =>
                 (cloud.pc = "oauth_wait" /\ cloud.checked = "login")
           /\ (cloud'.pc = "req_wait" /\ cloud.pc /= "req_wait") =>
                 /\ Truthy(cloud'.tok)
                 /\ cloud.pc /= "idle" =>
                       (cloud.checked = "login" /\ cloud'.login.err = "")]_vars

\* a second request made at the very instant of the expiry of the token a
\* login stored: a login is issued
C27_Witness ==
    /\ cloud.nreq >= 1
    /\ cloud.pc = "oauth_wait"
    /\ Truthy(cloud.tok) /\ cloud.hasExp /\ cloud.now = cloud.exp

\* C30: login() tries the OAuth login first; after a failure of it, whatever
\* the failure, the legacy login is tried; after a success of it the legacy
\* login is not tried and login() returns; and login() raises only after
\* both have failed, with a message that contains the messages of both.
C30_LegacyAfterEveryOAuthFailure ==
    /\ (cloud.last.op = "oauth" /\ cloud.last.err /= "") =>
           cloud.pc = "legacy_wait"
    /\ (cloud.last.op = "oauth" /\ cloud.last.err = "") =>
           (cloud.pc = "req_wait" /\ cloud.login.tried = <<"oauth">>)
    /\ cloud.login.tried /= <<>> =>
           /\ cloud.login.tried \in {<<"oauth">>, <<"oauth", "legacy">>}
           /\ cloud.login.err /= "" =>
                 /\ cloud.login.tried = <<"oauth", "legacy">>
                 /\ cloud.login.msg.parts = <<cloud.omsg, cloud.last.msg>>
                 /\ cloud.omsg.text /= "" /\ cloud.last.msg.text /= ""

(***************************************************************************)
(* Properties of authenticate() and of its callers.                        *)
(***************************************************************************)
\* C22: when authenticate() in Auto mode raises AuthError after the Strict
\* and the Legacy login both failed with an auth error, the message of the
\* error it raises contains the message of each of the two.
C22_ExhaustionAggregates ==
    (/\ login.pc = "done" /\ login.stage = "auth"
     /\ authMode = "Auto" /\ login.err = AuthError
     /\ Len(login.tried) = 2) =>
        \A i \in 1..2 :
            \E j \in 1..Len(login.msg.parts) :
                login.msg.parts[j] = login.tried[i]

\* C23: for a 200 login answer that is a JSON object, the token is taken
\* from the first of data.token, data.access_token, token, access_token that
\* the answer has, and the attempt succeeds; when it has none of them and
\* success is false, the attempt fails with AuthError carrying the message
\* embedded in the answer; when it has none and success is not false, the
\* attempt fails with APIError.
C23_TokenShapes ==
    LET r == login.last.resp.r
        b == login.last.resp.b
        m == login.last.resp.m
        shape == IF b.data = "dict" /\ b.dtok THEN "data.token"
                 ELSE IF b.data = "dict" /\ b.dacc THEN "data.access_token"
                 ELSE IF b.tok THEN "token"
                 ELSE IF b.acc THEN "access_token"
                 ELSE ""
        embedded == IF Truthy(Get(m, "message")) THEN Get(m, "message")
                    ELSE IF Truthy(Get(m, "Message")) THEN Get(m, "Message")
                    ELSE Get(m, "msg")
    IN  (/\ login.last.mode /= ""
         /\ r.kind = "http" /\ r.status = 200 /\ r.json = "dict") =>
            /\ shape /= "" =>
                  /\ login.last.err = ""
                  /\ login.tok = TokenOf(login.last.mode, shape, b.val)
            /\ (shape = "" /\ b.succ = "false") =>
                  /\ login.last.err = AuthError
                  /\ Truthy(embedded) => login.last.msg.vendor = embedded
            /\ (shape = "" /\ b.succ /= "false") =>
                  login.last.err = APIError

\* a login answer with data.token and token, the first of which is stored
C23_Witness ==
    /\ login.last.mode /= ""
    /\ login.last.resp.b.data = "dict"
    /\ login.last.resp.b.dtok /\ login.last.resp.b.tok
    /\ login.last.resp.b.val = "str"
    /\ login.tok.field = "data.token"
    /\ login.pc = "done" /\ login.err = ""

\* C25: a RateLimitError gets the outcome a ConnectionError gets: in the
\* config validation cannot_connect, in the setup ConfigEntryNotReady, and
\* for the first fetch of an update cycle UpdateFailed.
C25_RateLimitAsConnection ==
    /\ FirstFetch(RateLimitError) = "UpdateFailed"
    /\ (login.pc = "done" /\ login.err = RateLimitError) =>
           login.outcome = IF login.caller = "config" THEN "cannot_connect"
                           ELSE "ConfigEntryNotReady"

\* C26: a login attempt that fails, and so every authenticate() call that
\* ends by raising, in Auto mode after one or after two failed attempts,
\* leaves the stored token as it was; and the token takes a new value that
\* is not absent only in a step in which a login attempt succeeds.
C26_RaisingKeepsToken ==
    [][LET Answered(t) == task[t].pc = "login_wait" /\ task'[t] /= task[t]
           Attempt(t) == IF task[t].mode = "Strict" THEN task'[t].strict
                         ELSE task'[t].legacy
       IN  /\ \A t \in Tasks :
                 (Answered(t) /\ Attempt(t) /= "ok") => token' = token
           /\ (token' /= token /\ token' /= TokNone) =>
                 \E t \in Tasks : Answered(t) /\ Attempt(t) = "ok"]_vars

\* an authenticate() in Auto mode has raised after both logins failed while
\* a token was stored, and the token is still there
C26_Witness ==
    \E t \in Tasks :
        /\ task[t].pc = "idle"
        /\ task[t].strict = AuthError /\ task[t].legacy = AuthError
        /\ task[t].authres = AuthError
        /\ TokenTruthy(token)

\* C28: whenever authenticate() has returned success, the stored token is a
\* usable value: present, not null and not empty.
C28_SuccessMeansUsableToken ==
    (\/ login.stage = "fetch"
     \/ login.pc = "done" /\ login.stage = "auth" /\ login.err = "") =>
        TokenTruthy(login.tok)

\* C29: a plant-data request is only ever sent with a usable token stored;
\* get_plant_data called without one, at the start of an update cycle or for
\* the retry after a re-authentication, raises AuthError at once; and a
\* token that is not usable stays so until a login succeeds.
C29_NoFetchWithoutToken ==
    [][/\ \A t \in Tasks :
            /\ (task'[t].pc = "fetch_wait" /\ task[t].pc /= "fetch_wait") =>
                   TokenTruthy(token')
            /\ (/\ task[t].pc = "idle" /\ task'[t].op = "update"
                /\ task'[t] /= task[t] /\ ~TokenTruthy(token)) =>
                   /\ task'[t].f1 = AuthError
                   /\ task'[t].pc /= "fetch_wait"
            /\ (/\ AuthEnds(t) /\ task'[t].op = "update"
                /\ task'[t].authres = "ok" /\ ~TokenTruthy(token')) =>
                   /\ task'[t].f2 = AuthError
                   /\ task'[t].pc = "idle"
       /\ (~TokenTruthy(token) /\ TokenTruthy(token')) =>
             \E t \in Tasks :
                 /\ task[t].pc = "login_wait"
                 /\ "ok" \in {task'[t].strict, task'[t].legacy}]_vars

\* the retry of a cycle raised AuthError without a request: the login before
\* it had succeeded and stored an empty token
C29_Witness ==
    \E t \in Tasks :
        /\ task[t].op = "update" /\ task[t].pc = "idle"
        /\ task[t].authres = "ok" /\ task[t].f2 = AuthError
        /\ token.v = "empty"
====
